---- MODULE Spec2Model ----
(***************************************************************************)
(* Event-sourced session tracking of the time-tracker bot.                 *)
(*                                                                         *)
(* The store is PrismaService (src/src/database/prisma.js) over the tables *)
(* "sessions" and "session_events" of the migration (src/unnamed/part_002),*)
(* the lifecycle manager is the Prisma-backed TimeTrackingManager          *)
(* (src/src/utils/sessionManager.js, lines 352-560).  Every handler is an  *)
(* async function: it is modelled as one process that moves from one       *)
(* awaited store call to the next.  The SQLite store DatabaseManager       *)
(* (src/unnamed/part_009) runs synchronously, one statement per write; it  *)
(* spells statuses and event types in lower case, the model writes both    *)
(* stores in upper case.  Two further variants of the tracker keep a       *)
(* status and timestamps instead of events: the store of                   *)
(* src/unnamed/part_010 with the legacy manager (sessionManager.js, lines  *)
(* 575-760), and the gateway bot of src/src/database/database.ts with      *)
(* src/src/utils/trackingManager.ts.                                       *)
(***************************************************************************)
EXTENDS Integers, Sequences, FiniteSets, TLC

VARIABLES sessions, session_events, guildSettings, now, procs, inflight,
          calcEvents, calcTime, calcResult, agg,
          oldSessions, oldCall, oldLog,
          gwSessions, pause_sessions, user_stats, gwProcs, gwLog

vars == <<sessions, session_events, guildSettings, now, procs, inflight,
          calcEvents, calcTime, calcResult, agg,
          oldSessions, oldCall, oldLog,
          gwSessions, pause_sessions, user_stats, gwProcs, gwLog>>

dbVars == <<sessions, session_events>>
calcVars == <<calcEvents, calcTime, calcResult>>
\* the status-timestamp variant: table sessions of part_010, the call of the
\* legacy manager under way, and the log of its calls that changed a session
legacyVars == <<oldSessions, oldCall, oldLog>>
\* the gateway variant: the tables of database.ts, its handlers, and the log
\* of the calls that changed a session
gwVars == <<gwSessions, pause_sessions, user_stats, gwProcs, gwLog>>

(* ------------------------------ bounds -------------------------------- *)
\* largest clock reading
MaxClock == 2
\* rows of table sessions
MaxSessions == 2
\* rows of table session_events
MaxEvents == 4
\* longest event list handed to the calculator
CalcMaxLen == 4
\* largest gap between two consecutive calculator timestamps
CalcMaxGap == 1
\* longest event list of arbitrary order handed to the calculator
AnyMaxLen == 3
\* largest timestamp and reference time of those lists
AnyMaxTime == 1

Users == {"u1", "u2"}
Guilds == {"g1", "g2"}
Channels == {"c1", "c2"}
\* the handlers that can be under way at the same time
Procs == {1, 2}

\* value of a Date variable that holds null
NoTime == -1
\* session id standing for "no session" (findFirst returned null)
NoSession == 0
\* no store call of the SQLite variant is between two of its statements
NoCall == [op |-> "none", sid |-> 0]
\* the calculator has not been applied yet
NoResult == [op |-> "none", value |-> 0, closed |-> <<>>]
\* no getUserStats / getLeaderboard call is under way
AggIdle ==
    [pc |-> "idle", op |-> "", userId |-> "", guildId |-> "", limit |-> 0,
     t |-> NoTime, users |-> <<>>, seen |-> <<>>, leaderboard |-> <<>>,
     stats |-> [sessionsCount |-> 0, totalTimeMs |-> 0, lastSeen |-> NoTime],
     result |-> <<>>]

\* no call of the legacy manager has been made yet
OldIdle ==
    [pc |-> "idle", op |-> "", userId |-> "", guildId |-> "", sid |-> NoSession,
     endTime |-> NoTime, adjustedTime |-> NoTime, totalTimeMs |-> NoTime,
     outcome |-> ""]
\* no handler of the gateway variant is under way
GwIdleProc ==
    [pc |-> "idle", op |-> "", userId |-> "", guildId |-> "", sid |-> NoSession,
     adjustedDuration |-> NoTime, outcome |-> ""]

\* the tables of the two other variants are empty, no call of theirs was made
VariantsInit ==
    /\ oldSessions = <<>>
    /\ oldCall = OldIdle
    /\ oldLog = <<>>
    /\ gwSessions = <<>>
    /\ pause_sessions = <<>>
    /\ user_stats = [pr \in Users \X Guilds |->
                       [totalTimeMs |-> 0, sessionsCount |-> 0]]
    /\ gwProcs = [p \in Procs |-> GwIdleProc]
    /\ gwLog = <<>>

EventTypes == {"START", "PAUSE", "RESUME", "STOP"}
OpenStatuses == {"ACTIVE", "PAUSED"}

(* ----------------------------- calculator ----------------------------- *)
\* case "START": case "RESUME": lastActiveStart = timestamp
OnStartOrResume(acc, ts) == [total |-> acc.total, las |-> ts]

\* fault: a PAUSE/STOP adds the interval but leaves it open
OnPauseOrStop_KeepsRunning(acc, ts) ==
    IF acc.las # NoTime
    THEN [total |-> acc.total + (ts - acc.las), las |-> acc.las]
    ELSE acc

\* fault: the interval is closed without the test for a running one
OnPauseOrStop_Unguarded(acc, ts) ==
    [total |-> acc.total + (ts - acc.las), las |-> NoTime]

\* case "PAUSE" / case "STOP": close the running interval, if there is one
OnPauseOrStop(acc, ts) ==
    IF acc.las # NoTime
    THEN [total |-> acc.total + (ts - acc.las), las |-> NoTime]
    ELSE acc

RECURSIVE CalcLoop(_, _, _)
CalcLoop(events, i, acc) ==
    IF i > Len(events) THEN acc
    ELSE LET e == events[i] IN
         IF e.eventType \in {"START", "RESUME"}
         THEN CalcLoop(events, i + 1, OnStartOrResume(acc, e.timestamp))
         ELSE IF e.eventType \in {"PAUSE", "STOP"}
         THEN CalcLoop(events, i + 1, OnPauseOrStop(acc, e.timestamp))
         ELSE CalcLoop(events, i + 1, acc)

\* fault: the still-running interval is not added at the end
calculateSessionDuration_NoOpenInterval(events, currentTime) ==
    CalcLoop(events, 1, [total |-> 0, las |-> NoTime]).total

calculateSessionDuration(events, currentTime) ==
    IF Len(events) = 0 THEN 0
    ELSE LET acc == CalcLoop(events, 1, [total |-> 0, las |-> NoTime]) IN
         IF acc.las # NoTime
         THEN acc.total + (currentTime - acc.las)
         ELSE acc.total

(* ------------------------------- store -------------------------------- *)
SessionIds == 1..Len(sessions)

\* rows of session_events of one session, in insertion order
EventsOf(sid) == SelectSeq(session_events, LAMBDA e : e.sessionId = sid)

\* fault: the where clause has no status condition
OpenSessionIds_AnyStatus(userId, guildId) ==
    {s \in SessionIds : /\ sessions[s].userId = userId
                        /\ sessions[s].guildId = guildId}

\* fault: the where clause forgets the PAUSED sessions
OpenSessionIds_OnlyActive(userId, guildId) ==
    {s \in SessionIds : /\ sessions[s].userId = userId
                        /\ sessions[s].guildId = guildId
                        /\ sessions[s].status = "ACTIVE"}

\* fault: the where clause has no guildId condition
OpenSessionIds_AnyGuild(userId, guildId) ==
    {s \in SessionIds : /\ sessions[s].userId = userId
                        /\ sessions[s].status \in OpenStatuses}

\* where: userId, guildId, status in (ACTIVE, PAUSED)
OpenSessionIds(userId, guildId) ==
    {s \in SessionIds : /\ sessions[s].userId = userId
                        /\ sessions[s].guildId = guildId
                        /\ sessions[s].status \in OpenStatuses}

\* findFirst: one of the matching rows, or null
FindFirstOpen(userId, guildId) ==
    IF OpenSessionIds(userId, guildId) = {} THEN {NoSession}
    ELSE OpenSessionIds(userId, guildId)

\* orderBy: { timestamp: "asc" } -- rows with equal timestamps come in any order
OrderedByTimestamp(evs) ==
    LET n == Len(evs)
        perms == {p \in [1..n -> 1..n] :
                    /\ \A i, j \in 1..n : i # j => p[i] # p[j]
                    /\ \A i, j \in 1..n :
                         i < j => evs[p[i]].timestamp <= evs[p[j]].timestamp}
    IN {[i \in 1..n |-> evs[p[i]]] : p \in perms}

\* the event lists getActiveSession / getSessionEvents can return for a session
ListEvents(sid) == OrderedByTimestamp(EventsOf(sid))

(* ------------------------- handler processes -------------------------- *)
IdleProc ==
    [pc |-> "idle", op |-> "", layer |-> "", userId |-> "", guildId |-> "",
     channelId |-> "", sid |-> NoSession, status |-> "", events |-> <<>>,
     t |-> NoTime, dur |-> NoTime, dbSid |-> NoSession, outcome |-> ""]

InFlight(q) == procs[q].pc \notin {"idle", "done"}

\* handlers under way that will still insert a session row / an event row
PendingStarts == Cardinality({q \in Procs : InFlight(q) /\ procs[q].op = "start"})
PendingWrites == Cardinality({q \in Procs : InFlight(q)})

EventTypeOf(op) ==
    CASE op = "stop" -> "STOP"
      [] op = "pause" -> "PAUSE"
      [] op = "resume" -> "RESUME"

\* fault: pauseSession writes the status of stopSession
StatusAfter_PauseCompletes(op) ==
    CASE op = "stop" -> "COMPLETED"
      [] op = "pause" -> "COMPLETED"
      [] op = "resume" -> "ACTIVE"

StatusAfter(op) ==
    CASE op = "stop" -> "COMPLETED"
      [] op = "pause" -> "PAUSED"
      [] op = "resume" -> "ACTIVE"

Finish(p, outcome, sid, status, dur) ==
    [IdleProc EXCEPT !.pc = "done", !.op = procs[p].op, !.layer = procs[p].layer,
                     !.userId = procs[p].userId, !.guildId = procs[p].guildId,
                     !.t = procs[p].t, !.outcome = outcome, !.sid = sid,
                     !.status = status, !.dur = dur]

\* an interaction arrives: the command or button handler calls the manager
Invoke(p, op, userId, guildId, channelId) ==
    /\ procs[p].pc = "idle"
    /\ Len(session_events) + PendingWrites < MaxEvents
    /\ op = "start" => Len(sessions) + PendingStarts < MaxSessions
    /\ op \in {"pause", "resume"} => channelId = ""
    /\ op \in {"start", "stop"} => channelId # ""
    /\ procs' = [procs EXCEPT ![p] =
                   [IdleProc EXCEPT !.pc = IF op \in {"start", "stop"}
                                           THEN "validate" ELSE "mgrRead",
                                    !.op = op, !.layer = "manager",
                                    !.userId = userId, !.guildId = guildId,
                                    !.channelId = channelId]]
    /\ UNCHANGED <<dbVars, guildSettings, now, inflight, calcVars, agg, legacyVars, gwVars>>

\* fault: the channel check lets every channel through
validateTrackingChannel_AnyChannel(guildId, channelId) == TRUE

\* validateTrackingChannel(guildId, channelId)
validateTrackingChannel(guildId, channelId) ==
    \/ guildSettings[guildId] = ""
    \/ channelId = guildSettings[guildId]

\* startTracking / stopTracking: the channel check and its early return
ValidateChannel(p) ==
    /\ procs[p].pc = "validate"
    /\ procs' = [procs EXCEPT ![p] =
                   IF validateTrackingChannel(procs[p].guildId, procs[p].channelId)
                   THEN [procs[p] EXCEPT !.pc = "mgrRead"]
                   ELSE Finish(p, "wrongChannel", NoSession, "", NoTime)]
    /\ UNCHANGED <<dbVars, guildSettings, now, inflight, calcVars, agg, legacyVars, gwVars>>

\* fault: the check for an already paused session is missing
PauseRejected_Never(st) == FALSE

\* pauseTracking: if (activeSession.status === "PAUSED") return ...
PauseRejected(st) == st = "PAUSED"

\* fault: the check for a session that is already running is missing
ResumeRejected_Never(st) == FALSE

\* resumeTracking: if (activeSession.status === "ACTIVE") return ...
ResumeRejected(st) == st = "ACTIVE"

\* what the manager does with the session its getActiveSession returned
AfterMgrRead(p, sid, evs) ==
    LET me == procs[p]
        st == IF sid = NoSession THEN "" ELSE sessions[sid].status
        goOn == [me EXCEPT !.pc = "dbRead", !.sid = sid, !.status = st, !.t = now]
    IN CASE me.op = "start" ->
              IF sid # NoSession
              THEN Finish(p, "alreadyActive", sid, st,
                          calculateSessionDuration(evs, now))
              ELSE [me EXCEPT !.pc = "create", !.t = now]
         [] me.op = "stop" ->
              IF sid = NoSession
              THEN Finish(p, "noActiveSession", NoSession, "", NoTime)
              ELSE [goOn EXCEPT !.dur = calculateSessionDuration(evs, now)]
         [] me.op = "pause" ->
              IF sid = NoSession
              THEN Finish(p, "noActiveSession", NoSession, "", NoTime)
              ELSE IF PauseRejected(st)
              THEN Finish(p, "alreadyPaused", sid, st, NoTime)
              ELSE [goOn EXCEPT !.dur = calculateSessionDuration(evs, now)]
         [] me.op = "resume" ->
              IF sid = NoSession
              THEN Finish(p, "noActiveSession", NoSession, "", NoTime)
              ELSE IF ResumeRejected(st)
              THEN Finish(p, "alreadyRunning", sid, st, NoTime)
              ELSE [goOn EXCEPT !.events = evs]

\* const activeSession = await database.getActiveSession(userId, guildId)
MgrRead(p) ==
    /\ procs[p].pc = "mgrRead"
    /\ \E sid \in FindFirstOpen(procs[p].userId, procs[p].guildId) :
         \E evs \in (IF sid = NoSession THEN {<<>>} ELSE ListEvents(sid)) :
            procs' = [procs EXCEPT ![p] = AfterMgrRead(p, sid, evs)]
    /\ UNCHANGED <<dbVars, guildSettings, now, inflight, calcVars, agg, legacyVars, gwVars>>

\* fault: the START event is stamped when the row is written, not with startTime
DbCreate_StampsAtWrite(p) ==
    /\ procs[p].pc = "create"
    /\ sessions' = Append(sessions, [userId |-> procs[p].userId,
                                     guildId |-> procs[p].guildId,
                                     status |-> "ACTIVE"])
    /\ session_events' = Append(session_events,
                                [sessionId |-> Len(sessions) + 1,
                                 eventType |-> "START",
                                 timestamp |-> now])
    /\ procs' = [procs EXCEPT ![p] =
                   Finish(p, "started", Len(sessions) + 1, "ACTIVE", 0)]
    /\ UNCHANGED <<guildSettings, now, inflight, calcVars, agg, legacyVars, gwVars>>

\* PrismaService.startSession: session.create with the nested START event
DbCreate(p) ==
    /\ procs[p].pc = "create"
    /\ sessions' = Append(sessions, [userId |-> procs[p].userId,
                                     guildId |-> procs[p].guildId,
                                     status |-> "ACTIVE"])
    /\ session_events' = Append(session_events,
                                [sessionId |-> Len(sessions) + 1,
                                 eventType |-> "START",
                                 timestamp |-> procs[p].t])
    /\ procs' = [procs EXCEPT ![p] =
                   Finish(p, "started", Len(sessions) + 1, "ACTIVE", 0)]
    /\ UNCHANGED <<guildSettings, now, inflight, calcVars, agg, legacyVars, gwVars>>

\* stopSession / pauseSession / resumeSession: getActiveSession, throw if null
DbRead(p) ==
    /\ procs[p].pc = "dbRead"
    /\ \E sid \in FindFirstOpen(procs[p].userId, procs[p].guildId) :
         procs' = [procs EXCEPT ![p] =
                     IF sid = NoSession
                     THEN Finish(p, "exception", procs[p].sid, procs[p].status, NoTime)
                     ELSE [procs[p] EXCEPT !.pc = "dbWrite", !.dbSid = sid]]
    /\ UNCHANGED <<dbVars, guildSettings, now, inflight, calcVars, agg, legacyVars, gwVars>>

\* fault: the event is written over the row stored last instead of appended
DbWrite_OverwritesLastEvent(p) ==
    /\ procs[p].pc = "dbWrite"
    /\ session_events' = [session_events EXCEPT ![Len(session_events)] =
                            [sessionId |-> procs[p].dbSid,
                             eventType |-> EventTypeOf(procs[p].op),
                             timestamp |-> procs[p].t]]
    /\ sessions' = [sessions EXCEPT ![procs[p].dbSid].status = StatusAfter(procs[p].op)]
    /\ procs' = [procs EXCEPT ![p] =
                   IF procs[p].op = "resume" /\ procs[p].layer = "manager"
                   THEN [procs[p] EXCEPT !.pc = "mgrCalc"]
                   ELSE Finish(p, "ok", procs[p].dbSid, StatusAfter(procs[p].op),
                               procs[p].dur)]
    /\ UNCHANGED <<guildSettings, now, inflight, calcVars, agg, legacyVars, gwVars>>

\* stopSession / pauseSession / resumeSession: the $transaction of the event
\* insert and the status update.  The manager's calls that follow it
\* (updateLiveMessage, getUserStats) read the tables and write no session.
DbWrite(p) ==
    /\ procs[p].pc = "dbWrite"
    /\ session_events' = Append(session_events,
                                [sessionId |-> procs[p].dbSid,
                                 eventType |-> EventTypeOf(procs[p].op),
                                 timestamp |-> procs[p].t])
    /\ sessions' = [sessions EXCEPT ![procs[p].dbSid].status = StatusAfter(procs[p].op)]
    /\ procs' = [procs EXCEPT ![p] =
                   IF procs[p].op = "resume" /\ procs[p].layer = "manager"
                   THEN [procs[p] EXCEPT !.pc = "mgrCalc"]
                   ELSE Finish(p, "ok", procs[p].dbSid, StatusAfter(procs[p].op),
                               procs[p].dur)]
    /\ UNCHANGED <<guildSettings, now, inflight, calcVars, agg, legacyVars, gwVars>>

\* resumeTracking: calculateSessionDuration(activeSession.events) after the write
MgrCalc(p) ==
    /\ procs[p].pc = "mgrCalc"
    /\ procs' = [procs EXCEPT ![p] =
                   Finish(p, "ok", procs[p].dbSid, "ACTIVE",
                          calculateSessionDuration(procs[p].events, now))]
    /\ UNCHANGED <<dbVars, guildSettings, now, inflight, calcVars, agg, legacyVars, gwVars>>

\* the handler's response is sent
Respond(p) ==
    /\ procs[p].pc = "done"
    /\ procs' = [procs EXCEPT ![p] = IdleProc]
    /\ UNCHANGED <<dbVars, guildSettings, now, inflight, calcVars, agg, legacyVars, gwVars>>

\* new Date() / Date.now() read a clock that moves on
Tick ==
    /\ now < MaxClock
    /\ now' = now + 1
    /\ UNCHANGED <<dbVars, guildSettings, procs, inflight, calcVars, agg, legacyVars, gwVars>>

\* /settings: setGuildSettings(guildId, { trackingChannelId })
SetTrackingChannel(guildId, channelId) ==
    /\ guildSettings[guildId] # channelId
    /\ guildSettings' = [guildSettings EXCEPT ![guildId] = channelId]
    /\ UNCHANGED <<dbVars, now, procs, inflight, calcVars, agg, legacyVars, gwVars>>

(* --------------------------- specifications --------------------------- *)
Init ==
    /\ sessions = <<>>
    /\ session_events = <<>>
    /\ guildSettings = [g \in Guilds |-> ""]
    /\ now = 0
    /\ procs = [p \in Procs |-> IdleProc]
    /\ inflight = NoCall
    /\ calcEvents = <<>>
    /\ calcTime = 0
    /\ calcResult = NoResult
    /\ agg = AggIdle
    /\ VariantsInit

Ops == {"start", "stop", "pause", "resume"}

\* the (userId, guildId) pairs the interactions come from
Pairs == {<<"u1", "g1">>, <<"u2", "g1">>}
\* the pair the concurrent interactions come from, and their channel
RacePairs == {<<"u1", "g1">>}
RaceChannels == {"c1"}

\* one handler at a time: a call is taken only when no other is under way
SeqInvoke(op, userId, guildId, channelId) ==
    /\ \A q \in Procs : procs[q].pc = "idle"
    /\ Invoke(1, op, userId, guildId, channelId)

Next ==
    \/ Tick
    \/ \E pr \in Pairs, c \in Channels \cup {""} : SetTrackingChannel(pr[2], c)
    \/ \E op \in Ops, pr \in Pairs, c \in Channels \cup {""} :
         SeqInvoke(op, pr[1], pr[2], c)
    \/ ValidateChannel(1)
    \/ MgrRead(1)
    \/ DbCreate(1)
    \/ DbRead(1)
    \/ DbWrite(1)
    \/ MgrCalc(1)
    \/ Respond(1)

\* the lifecycle manager, one call at a time
Spec == Init /\ [][Next]_vars

ConcNext ==
    \/ Tick
    \/ \E p \in Procs, op \in Ops, pr \in RacePairs, c \in RaceChannels \cup {""} :
         Invoke(p, op, pr[1], pr[2], c)
    \/ \E p \in Procs : ValidateChannel(p)
    \/ \E p \in Procs : MgrRead(p)
    \/ \E p \in Procs : DbCreate(p)
    \/ \E p \in Procs : DbRead(p)
    \/ \E p \in Procs : DbWrite(p)
    \/ \E p \in Procs : MgrCalc(p)
    \/ \E p \in Procs : Respond(p)

\* the lifecycle manager with handlers interleaving at their awaited calls
ConcSpec == Init /\ [][ConcNext]_vars

\* pairs that share a user or a guild
FramePairs == {<<"u1", "g1">>, <<"u2", "g1">>, <<"u1", "g2">>}

FrameNext ==
    \/ Tick
    \/ \E op \in Ops, pr \in FramePairs, c \in RaceChannels \cup {""} :
         SeqInvoke(op, pr[1], pr[2], c)
    \/ ValidateChannel(1)
    \/ MgrRead(1)
    \/ DbCreate(1)
    \/ DbRead(1)
    \/ DbWrite(1)
    \/ MgrCalc(1)
    \/ Respond(1)

\* calls for several users and guilds, one at a time
FrameSpec == Init /\ [][FrameNext]_vars

(* ---------------------- the store called directly --------------------- *)
\* a caller other than the manager calls PrismaService.startSession,
\* stopSession, pauseSession or resumeSession with the current time
InvokeStore(p, op, userId, guildId) ==
    /\ \A q \in Procs : procs[q].pc = "idle"
    /\ Len(session_events) < MaxEvents
    /\ op = "start" => Len(sessions) < MaxSessions
    /\ procs' = [procs EXCEPT ![p] =
                   [IdleProc EXCEPT !.pc = IF op = "start" THEN "create" ELSE "dbRead",
                                    !.op = op, !.layer = "store",
                                    !.userId = userId, !.guildId = guildId,
                                    !.t = now]]
    /\ UNCHANGED <<dbVars, guildSettings, now, inflight, calcVars, agg, legacyVars, gwVars>>

StoreNext ==
    \/ Tick
    \/ \E op \in Ops, pr \in Pairs : InvokeStore(1, op, pr[1], pr[2])
    \/ DbCreate(1)
    \/ DbRead(1)
    \/ DbWrite(1)
    \/ Respond(1)

\* PrismaService called method by method, one call at a time
StoreSpec == Init /\ [][StoreNext]_vars

(* ------------------- the SQLite store and a crash --------------------- *)
\* the checks of the manager before it calls the store
CallerAllows(op, userId, guildId) ==
    LET open == OpenSessionIds(userId, guildId) IN
    CASE op = "start" -> open = {}
      [] op = "stop" -> open # {}
      [] op = "pause" -> \E s \in open : sessions[s].status = "ACTIVE"
      [] op = "resume" -> \E s \in open : sessions[s].status = "PAUSED"

\* DatabaseManager.startSession, first statement: INSERT INTO sessions
SqliteInsertSession(userId, guildId) ==
    /\ inflight = NoCall
    /\ CallerAllows("start", userId, guildId)
    /\ Len(sessions) < MaxSessions
    /\ Len(session_events) < MaxEvents
    /\ sessions' = Append(sessions, [userId |-> userId, guildId |-> guildId,
                                     status |-> "ACTIVE"])
    /\ inflight' = [op |-> "start", sid |-> Len(sessions) + 1]
    /\ UNCHANGED <<session_events, guildSettings, now, procs, calcVars, agg, legacyVars, gwVars>>

\* DatabaseManager.stopSession / pauseSession / resumeSession, first statement:
\* getActiveSession, then addSessionEvent
SqliteAddEvent(op, userId, guildId) ==
    /\ inflight = NoCall
    /\ op \in {"stop", "pause", "resume"}
    /\ CallerAllows(op, userId, guildId)
    /\ Len(session_events) < MaxEvents
    /\ \E sid \in OpenSessionIds(userId, guildId) :
         /\ session_events' = Append(session_events,
                                     [sessionId |-> sid,
                                      eventType |-> EventTypeOf(op),
                                      timestamp |-> now])
         /\ inflight' = [op |-> op, sid |-> sid]
    /\ UNCHANGED <<sessions, guildSettings, now, procs, calcVars, agg, legacyVars, gwVars>>

\* the second statement of the call under way: the START event of
\* startSession, the UPDATE sessions SET status of the other three
SqliteSecondStatement ==
    /\ inflight # NoCall
    /\ IF inflight.op = "start"
       THEN /\ session_events' = Append(session_events,
                                        [sessionId |-> inflight.sid,
                                         eventType |-> "START",
                                         timestamp |-> now])
            /\ UNCHANGED sessions
       ELSE /\ sessions' = [sessions EXCEPT
                              ![inflight.sid].status = StatusAfter(inflight.op)]
            /\ UNCHANGED session_events
    /\ inflight' = NoCall
    /\ UNCHANGED <<guildSettings, now, procs, calcVars, agg, legacyVars, gwVars>>

\* the process dies between the two statements; the database keeps the first
Crash ==
    /\ inflight # NoCall
    /\ inflight' = NoCall
    /\ UNCHANGED <<dbVars, guildSettings, now, procs, calcVars, agg, legacyVars, gwVars>>

\* the clock moves on between two calls
SqliteTick == inflight = NoCall /\ Tick

CrashNext ==
    \/ SqliteTick
    \/ \E pr \in Pairs : SqliteInsertSession(pr[1], pr[2])
    \/ \E op \in Ops, pr \in Pairs : SqliteAddEvent(op, pr[1], pr[2])
    \/ SqliteSecondStatement
    \/ Crash

\* the SQLite store under the manager's calls, with crashes
CrashSpec == Init /\ [][CrashNext]_vars

(* ------------------------ calculator, applied ------------------------- *)
RECURSIVE SumGaps(_, _)
SumGaps(gaps, i) == IF i <= 1 THEN 0 ELSE gaps[i] + SumGaps(gaps, i - 1)

\* an event list in ascending timestamp order, as getActiveSession hands it
\* over: the types and the gaps between consecutive timestamps are drawn
\* freely, the first event is at time 0
CalcInput(types, gaps) ==
    [i \in DOMAIN types |-> [eventType |-> types[i], timestamp |-> SumGaps(gaps, i)]]

LastTimestamp(evs) == IF Len(evs) = 0 THEN 0 ELSE evs[Len(evs)].timestamp

\* reference times not earlier than the last event
LaterTimes(evs) == LastTimestamp(evs)..(LastTimestamp(evs) + CalcMaxGap)
\* every reference time of the model
AllTimes == 0..((CalcMaxLen + 2) * CalcMaxGap)

\* calculateSessionDuration(events, currentTime)
Calculate(t) ==
    /\ calcResult = NoResult
    /\ calcTime' = t
    /\ calcResult' = [op |-> "plain",
                      value |-> calculateSessionDuration(calcEvents, t),
                      closed |-> <<>>]
    /\ UNCHANGED <<dbVars, guildSettings, now, procs, inflight, calcEvents, agg, legacyVars, gwVars>>

\* stopTracking: the duration of the pre-stop list at endTime, and the duration
\* of the list with the STOP event at endTime, read at each later reference time
CalculateClosed(endTime) ==
    /\ calcResult = NoResult
    /\ calcTime' = endTime
    /\ calcResult' =
         [op |-> "closed",
          value |-> calculateSessionDuration(calcEvents, endTime),
          closed |-> [t \in AllTimes |->
                        calculateSessionDuration(
                          Append(calcEvents, [eventType |-> "STOP",
                                              timestamp |-> endTime]), t)]]
    /\ UNCHANGED <<dbVars, guildSettings, now, procs, inflight, calcEvents, agg, legacyVars, gwVars>>

CalcInit ==
    /\ sessions = <<>>
    /\ session_events = <<>>
    /\ guildSettings = [g \in Guilds |-> ""]
    /\ now = 0
    /\ procs = [p \in Procs |-> IdleProc]
    /\ inflight = NoCall
    /\ \E n \in 0..CalcMaxLen :
         \E types \in [1..n -> EventTypes], gaps \in [2..n -> 0..CalcMaxGap] :
            calcEvents = CalcInput(types, gaps)
    /\ calcTime = 0
    /\ calcResult = NoResult
    /\ agg = AggIdle
    /\ VariantsInit

CalcNext ==
    \/ \E t \in LaterTimes(calcEvents) : Calculate(t)
    \/ \E t \in LaterTimes(calcEvents) : CalculateClosed(t)

\* the duration calculator applied to every bounded event list
CalcSpec == CalcInit /\ [][CalcNext]_vars

(* ---------------- calculator, applied to any event list --------------- *)
\* an event list as any caller can pass it: types and timestamps drawn freely
AnyInput(types, times) ==
    [i \in DOMAIN types |-> [eventType |-> types[i], timestamp |-> times[i]]]

AnyTimes == 0..AnyMaxTime

\* the orders in which one list of events can be passed
PassingOrders(n) ==
    {f \in [1..n -> 1..n] : \A i, j \in 1..n : i # j => f[i] # f[j]}

\* calculateSessionDuration(events, currentTime) for the list as given, and
\* for the same events passed in each other order
CalculatePermuted(t) ==
    /\ calcResult = NoResult
    /\ calcTime' = t
    /\ calcResult' =
         [op |-> "permuted",
          value |-> calculateSessionDuration(calcEvents, t),
          closed |-> [f \in PassingOrders(Len(calcEvents)) |->
                        calculateSessionDuration(
                          [i \in 1..Len(calcEvents) |-> calcEvents[f[i]]], t)]]
    /\ UNCHANGED <<dbVars, guildSettings, now, procs, inflight, calcEvents, agg, legacyVars, gwVars>>

AnyCalcInit ==
    /\ sessions = <<>>
    /\ session_events = <<>>
    /\ guildSettings = [g \in Guilds |-> ""]
    /\ now = 0
    /\ procs = [p \in Procs |-> IdleProc]
    /\ inflight = NoCall
    /\ \E n \in 0..AnyMaxLen :
         \E types \in [1..n -> EventTypes], times \in [1..n -> AnyTimes] :
            calcEvents = AnyInput(types, times)
    /\ calcTime = 0
    /\ calcResult = NoResult
    /\ agg = AggIdle
    /\ VariantsInit

AnyCalcNext ==
    \/ \E t \in AnyTimes : Calculate(t)
    \/ \E t \in AnyTimes : CalculatePermuted(t)

\* the duration calculator applied to event lists in any order, at any
\* reference time
AnyCalcSpec == AnyCalcInit /\ [][AnyCalcNext]_vars

(* ---------------------------- aggregation ----------------------------- *)
\* largest limit passed to getLeaderboard
MaxLimit == 2
\* rows of table session_events when the aggregation calls are made
AggMaxEvents == 3

\* fault: only finished sessions are fetched
StatsWhere_OnlyCompleted(s, userId, guildId) ==
    /\ sessions[s].userId = userId
    /\ sessions[s].guildId = guildId
    /\ sessions[s].status = "COMPLETED"

\* getUserStats: findMany where { userId, guildId }
StatsWhere(s, userId, guildId) ==
    /\ sessions[s].userId = userId
    /\ sessions[s].guildId = guildId

\* fault: the first event of the list is taken for the latest
LatestEvent_First(evs) == evs[1]

\* getUserStats: session.events[session.events.length - 1]
LatestEvent(evs) == evs[Len(evs)]

\* getUserStats: the loop over the sessions found.  order is the rows of
\* session_events in one order by timestamp the store can return; each
\* session's events come in that order.  Math.round leaves the sum, a whole
\* number of milliseconds, as it is.
RECURSIVE StatsLoop(_, _, _, _, _, _)
StatsLoop(userId, guildId, order, t, s, acc) ==
    IF s > Len(sessions) THEN acc
    ELSE IF ~StatsWhere(s, userId, guildId)
    THEN StatsLoop(userId, guildId, order, t, s + 1, acc)
    ELSE LET evs == SelectSeq(order, LAMBDA e : e.sessionId = s) IN
         StatsLoop(userId, guildId, order, t, s + 1,
                   [sessionsCount |-> acc.sessionsCount + 1,
                    totalTimeMs |-> acc.totalTimeMs
                                    + calculateSessionDuration(evs, t),
                    lastSeen |->
                      IF /\ Len(evs) > 0
                         /\ \/ acc.lastSeen = NoTime
                            \/ LatestEvent(evs).timestamp > acc.lastSeen
                      THEN LatestEvent(evs).timestamp
                      ELSE acc.lastSeen])

\* the value getUserStats(userId, guildId) returns when it runs at time t
UserStatsAt(userId, guildId, order, t) ==
    StatsLoop(userId, guildId, order, t, 1, AggIdle.stats)

\* getUserStats(userId, guildId), called on its own
GetUserStats(userId, guildId) ==
    /\ agg.pc = "idle"
    /\ inflight = NoCall
    /\ \E order \in OrderedByTimestamp(session_events) :
         agg' = [AggIdle EXCEPT !.pc = "done", !.op = "stats",
                                !.userId = userId, !.guildId = guildId,
                                !.t = now,
                                !.stats = UserStatsAt(userId, guildId, order, now)]
    /\ UNCHANGED <<dbVars, guildSettings, now, procs, inflight, calcVars, legacyVars, gwVars>>

\* fault: the comparator is a - b, the smallest total comes first
RECURSIVE InsertSorted_Ascending(_, _)
InsertSorted_Ascending(sorted, e) ==
    IF sorted = <<>> THEN <<e>>
    ELSE IF Head(sorted).totalTimeMs <= e.totalTimeMs
    THEN <<Head(sorted)>> \o InsertSorted_Ascending(Tail(sorted), e)
    ELSE <<e>> \o sorted

\* .sort((a, b) => b.totalTimeMs - a.totalTimeMs): the sort is stable, an entry
\* goes behind the entries whose total is not smaller
RECURSIVE InsertSorted(_, _)
InsertSorted(sorted, e) ==
    IF sorted = <<>> THEN <<e>>
    ELSE IF Head(sorted).totalTimeMs >= e.totalTimeMs
    THEN <<Head(sorted)>> \o InsertSorted(Tail(sorted), e)
    ELSE <<e>> \o sorted

RECURSIVE SortByTotal(_)
SortByTotal(entries) ==
    IF entries = <<>> THEN <<>>
    ELSE InsertSorted(SortByTotal(SubSeq(entries, 1, Len(entries) - 1)),
                      entries[Len(entries)])

\* .slice(0, limit)
Slice(entries, limit) ==
    SubSeq(entries, 1, IF limit < Len(entries) THEN limit ELSE Len(entries))

\* getLeaderboard: the end of the loop over the users, then sort and slice
LeaderboardAfter(a) ==
    IF a.users # <<>> THEN a
    ELSE [a EXCEPT !.pc = "done",
                   !.result = Slice(SortByTotal(a.leaderboard), a.limit)]

\* findMany where { guildId }, distinct userId: the users in any order
DistinctUsers(guildId) ==
    LET us == {sessions[s].userId : s \in {x \in SessionIds :
                                             sessions[x].guildId = guildId}}
    IN {q \in UNION {[1..n -> us] : n \in 0..Cardinality(us)} :
          /\ Len(q) = Cardinality(us)
          /\ \A i, j \in 1..Len(q) : i # j => q[i] # q[j]}

\* getLeaderboard(guildId, limit): the query for the users of the guild
GetLeaderboard(guildId, limit) ==
    /\ agg.pc = "idle"
    /\ inflight = NoCall
    /\ \E users \in DistinctUsers(guildId) :
         agg' = LeaderboardAfter([AggIdle EXCEPT !.pc = "lbLoop",
                                                 !.op = "leaderboard",
                                                 !.guildId = guildId,
                                                 !.limit = limit,
                                                 !.users = users])
    /\ UNCHANGED <<dbVars, guildSettings, now, procs, inflight, calcVars, legacyVars, gwVars>>

\* getLeaderboard: await getUserStats(userId, guildId) for the next user, and
\* the push of the users whose total is above 0
LeaderboardUser ==
    /\ agg.pc = "lbLoop"
    /\ \E order \in OrderedByTimestamp(session_events) :
         LET userId == Head(agg.users)
             userStats == UserStatsAt(userId, agg.guildId, order, now)
             entry == [userId |-> userId,
                       sessionsCount |-> userStats.sessionsCount,
                       totalTimeMs |-> userStats.totalTimeMs]
         IN agg' = LeaderboardAfter(
                     [agg EXCEPT !.users = Tail(agg.users),
                                 !.seen = Append(agg.seen, entry),
                                 !.leaderboard =
                                    IF userStats.totalTimeMs > 0
                                    THEN Append(agg.leaderboard, entry)
                                    ELSE agg.leaderboard])
    /\ UNCHANGED <<dbVars, guildSettings, now, procs, inflight, calcVars, legacyVars, gwVars>>

\* the caller has the value returned
AggRespond ==
    /\ agg.pc = "done"
    /\ agg' = AggIdle
    /\ UNCHANGED <<dbVars, guildSettings, now, procs, inflight, calcVars, legacyVars, gwVars>>

\* the calls that write the tables are taken when no aggregation is under way
AggIsIdle == agg.pc = "idle" /\ Len(session_events) < AggMaxEvents

AggNext ==
    \/ SqliteTick
    \/ \E pr \in Pairs : AggIsIdle /\ SqliteInsertSession(pr[1], pr[2])
    \/ \E op \in Ops, pr \in Pairs : AggIsIdle /\ SqliteAddEvent(op, pr[1], pr[2])
    \/ SqliteSecondStatement
    \/ \E pr \in Pairs : GetUserStats(pr[1], pr[2])
    \/ \E pr \in Pairs, limit \in 1..MaxLimit : GetLeaderboard(pr[2], limit)
    \/ LeaderboardUser
    \/ AggRespond

\* the store under the manager's calls and the aggregation calls, one call
\* at a time
AggSpec == Init /\ [][AggNext]_vars

(* -------------------- the status-timestamp variant -------------------- *)
\* DatabaseManager of part_010 under the legacy TimeTrackingManager of
\* sessionManager.js (lines 575-760).  better-sqlite3 runs each statement
\* synchronously and the handlers await nothing, so a handler runs to its end
\* without another one in between; only the clock moves between its two
\* readings in stopTracking.  The calls are taken past the channel check.
\* rows of table sessions of the variant
OldMaxSessions == 2
\* calls of the variant that change a session
OldMaxCalls == 4

OldSessionIds == 1..Len(oldSessions)

\* WHERE userId = ? AND guildId = ? AND status IN ('active', 'paused')
OldOpenIds(userId, guildId) ==
    {s \in OldSessionIds : /\ oldSessions[s].userId = userId
                           /\ oldSessions[s].guildId = guildId
                           /\ oldSessions[s].status \in OpenStatuses}

\* calculateAdjustedTime(session), with Date.now() read as t
legacyCalculateAdjustedTime(session, t) ==
    IF session.status = "ACTIVE"
    THEN t - session.startTime + session.pausedTime
    ELSE session.pausedTime

\* stopSession: UPDATE sessions SET endTime, status = 'completed' WHERE the
\* pair's status IN ('active', 'paused')
OldStopSession(userId, guildId, endTime) ==
    [s \in OldSessionIds |->
       IF s \in OldOpenIds(userId, guildId)
       THEN [oldSessions[s] EXCEPT !.endTime = endTime, !.status = "COMPLETED"]
       ELSE oldSessions[s]]

\* pauseSession: UPDATE sessions SET status = 'paused', pausedTime WHERE the
\* pair's status = 'active'
OldPauseSession(userId, guildId, pausedTime) ==
    [s \in OldSessionIds |->
       IF s \in OldOpenIds(userId, guildId) /\ oldSessions[s].status = "ACTIVE"
       THEN [oldSessions[s] EXCEPT !.status = "PAUSED", !.pausedTime = pausedTime]
       ELSE oldSessions[s]]

\* fault: the session goes on from its first startTime
OldResumeSession_KeepsStartTime(userId, guildId, resumeTime) ==
    [s \in OldSessionIds |->
       IF s \in OldOpenIds(userId, guildId) /\ oldSessions[s].status = "PAUSED"
       THEN [oldSessions[s] EXCEPT !.status = "ACTIVE"]
       ELSE oldSessions[s]]

\* resumeSession: UPDATE sessions SET status = 'active', startTime WHERE the
\* pair's status = 'paused'
OldResumeSession(userId, guildId, resumeTime) ==
    [s \in OldSessionIds |->
       IF s \in OldOpenIds(userId, guildId) /\ oldSessions[s].status = "PAUSED"
       THEN [oldSessions[s] EXCEPT !.status = "ACTIVE", !.startTime = resumeTime]
       ELSE oldSessions[s]]

\* getUserStats / getLeaderboard: the CASE inside SUM(...), for one row
OldSessionTime(session) ==
    IF session.status = "COMPLETED"
    THEN session.endTime - session.startTime
    ELSE session.pausedTime

RECURSIVE OldSumTimes(_, _, _, _)
OldSumTimes(rows, userId, guildId, s) ==
    IF s > Len(rows) THEN 0
    ELSE (IF rows[s].userId = userId /\ rows[s].guildId = guildId
          THEN OldSessionTime(rows[s]) ELSE 0)
         + OldSumTimes(rows, userId, guildId, s + 1)

\* getUserStats(userId, guildId).totalTimeMs over the rows given
OldTotalTimeMs(rows, userId, guildId) == OldSumTimes(rows, userId, guildId, 1)

\* the answer of a call that ends without a write
OldReply(op, userId, guildId, sid, outcome, adjustedTime) ==
    [OldIdle EXCEPT !.pc = "done", !.op = op, !.userId = userId,
                    !.guildId = guildId, !.sid = sid, !.outcome = outcome,
                    !.adjustedTime = adjustedTime]

\* a call of the manager is taken when the one before it has ended
OldReady == oldCall.pc \in {"idle", "done"} /\ Len(oldLog) < OldMaxCalls

OldLogEntry(sid, eventType, timestamp, adjustedTime) ==
    [sessionId |-> sid, eventType |-> eventType, timestamp |-> timestamp,
     adjustedTime |-> adjustedTime]

\* startTracking(userId, guildId, channelId)
LegacyStartTracking(userId, guildId) ==
    /\ OldReady
    /\ IF OldOpenIds(userId, guildId) # {}
       THEN /\ \E sid \in OldOpenIds(userId, guildId) :
                 oldCall' = OldReply("start", userId, guildId, sid, "alreadyActive",
                                     legacyCalculateAdjustedTime(oldSessions[sid], now))
            /\ UNCHANGED <<oldSessions, oldLog>>
       ELSE /\ Len(oldSessions) < OldMaxSessions
            /\ oldSessions' = Append(oldSessions,
                                     [userId |-> userId, guildId |-> guildId,
                                      startTime |-> now, endTime |-> NoTime,
                                      pausedTime |-> 0, status |-> "ACTIVE"])
            /\ oldLog' = Append(oldLog,
                                OldLogEntry(Len(oldSessions) + 1, "START", now, NoTime))
            /\ oldCall' = OldReply("start", userId, guildId, Len(oldSessions) + 1,
                                   "started", 0)
    /\ UNCHANGED <<dbVars, guildSettings, now, procs, inflight, calcVars, agg, gwVars>>

\* pauseTracking(userId, guildId)
LegacyPauseTracking(userId, guildId) ==
    /\ OldReady
    /\ IF OldOpenIds(userId, guildId) = {}
       THEN /\ oldCall' = OldReply("pause", userId, guildId, NoSession,
                                   "noActiveSession", NoTime)
            /\ UNCHANGED <<oldSessions, oldLog>>
       ELSE \E sid \in OldOpenIds(userId, guildId) :
              IF oldSessions[sid].status = "PAUSED"
              THEN /\ oldCall' = OldReply("pause", userId, guildId, sid,
                                          "alreadyPaused", NoTime)
                   /\ UNCHANGED <<oldSessions, oldLog>>
              ELSE LET pausedTime == now - oldSessions[sid].startTime
                                     + oldSessions[sid].pausedTime
                   IN /\ oldSessions' = OldPauseSession(userId, guildId, pausedTime)
                      /\ oldLog' = Append(oldLog,
                                          OldLogEntry(sid, "PAUSE", now, NoTime))
                      /\ oldCall' = OldReply("pause", userId, guildId, sid, "ok",
                                             pausedTime)
    /\ UNCHANGED <<dbVars, guildSettings, now, procs, inflight, calcVars, agg, gwVars>>

\* resumeTracking(userId, guildId)
LegacyResumeTracking(userId, guildId) ==
    /\ OldReady
    /\ IF OldOpenIds(userId, guildId) = {}
       THEN /\ oldCall' = OldReply("resume", userId, guildId, NoSession,
                                   "noActiveSession", NoTime)
            /\ UNCHANGED <<oldSessions, oldLog>>
       ELSE \E sid \in OldOpenIds(userId, guildId) :
              IF oldSessions[sid].status = "ACTIVE"
              THEN /\ oldCall' = OldReply("resume", userId, guildId, sid,
                                          "alreadyRunning", NoTime)
                   /\ UNCHANGED <<oldSessions, oldLog>>
              ELSE /\ oldSessions' = OldResumeSession(userId, guildId, now)
                   /\ oldLog' = Append(oldLog,
                                       OldLogEntry(sid, "RESUME", now, NoTime))
                   /\ oldCall' = OldReply("resume", userId, guildId, sid, "ok",
                                          oldSessions[sid].pausedTime)
    /\ UNCHANGED <<dbVars, guildSettings, now, procs, inflight, calcVars, agg, gwVars>>

\* stopTracking(userId, guildId, channelId) up to const endTime = new Date()
LegacyStopTracking(userId, guildId) ==
    /\ OldReady
    /\ IF OldOpenIds(userId, guildId) = {}
       THEN oldCall' = OldReply("stop", userId, guildId, NoSession,
                                "noActiveSession", NoTime)
       ELSE \E sid \in OldOpenIds(userId, guildId) :
              oldCall' = [OldIdle EXCEPT !.pc = "stopping", !.op = "stop",
                                         !.userId = userId, !.guildId = guildId,
                                         !.sid = sid, !.endTime = now]
    /\ UNCHANGED <<oldSessions, oldLog>>
    /\ UNCHANGED <<dbVars, guildSettings, now, procs, inflight, calcVars, agg, gwVars>>

\* stopTracking from calculateAdjustedTime(activeSession), which reads the
\* clock again, to the end: stopSession, then getUserStats for the embed
LegacyStopSession ==
    /\ oldCall.pc = "stopping"
    /\ LET adjustedTime ==
             legacyCalculateAdjustedTime(oldSessions[oldCall.sid], now)
           after == OldStopSession(oldCall.userId, oldCall.guildId, oldCall.endTime)
       IN /\ oldSessions' = after
          /\ oldLog' = Append(oldLog, OldLogEntry(oldCall.sid, "STOP",
                                                  oldCall.endTime, adjustedTime))
          /\ oldCall' = [oldCall EXCEPT
                           !.pc = "done", !.outcome = "ok",
                           !.adjustedTime = adjustedTime,
                           !.totalTimeMs = OldTotalTimeMs(after, oldCall.userId,
                                                          oldCall.guildId)]
    /\ UNCHANGED <<dbVars, guildSettings, now, procs, inflight, calcVars, agg, gwVars>>

\* the events performMigration creates for one old session
MigratedEvents(sid) ==
    LET session == oldSessions[sid] IN
    <<[sessionId |-> sid, eventType |-> "START", timestamp |-> session.startTime]>>
    \o (IF session.pausedTime > 0 /\ session.status = "PAUSED"
        THEN <<[sessionId |-> sid, eventType |-> "PAUSE",
                timestamp |-> session.startTime + session.pausedTime]>>
        ELSE <<>>)
    \o (IF session.endTime # NoTime
        THEN <<[sessionId |-> sid, eventType |-> "STOP",
                timestamp |-> session.endTime]>>
        ELSE <<>>)

RECURSIVE MigrateFrom(_)
MigrateFrom(sid) ==
    IF sid > Len(oldSessions) THEN <<>>
    ELSE MigratedEvents(sid) \o MigrateFrom(sid + 1)

\* DatabaseManager of part_009 is constructed over the tables of part_010:
\* performMigration copies every row into the new sessions table and creates
\* its events
performMigration ==
    /\ OldReady
    /\ oldSessions # <<>>
    /\ sessions = <<>>
    /\ sessions' = [s \in OldSessionIds |->
                      [userId |-> oldSessions[s].userId,
                       guildId |-> oldSessions[s].guildId,
                       status |-> oldSessions[s].status]]
    /\ session_events' = MigrateFrom(1)
    /\ oldCall' = [OldIdle EXCEPT !.pc = "migrated"]
    /\ UNCHANGED <<oldSessions, oldLog>>
    /\ UNCHANGED <<guildSettings, now, procs, inflight, calcVars, agg, gwVars>>

LegacyNext ==
    \/ Tick
    \/ \E pr \in Pairs : LegacyStartTracking(pr[1], pr[2])
    \/ \E pr \in Pairs : LegacyPauseTracking(pr[1], pr[2])
    \/ \E pr \in Pairs : LegacyResumeTracking(pr[1], pr[2])
    \/ \E pr \in Pairs : LegacyStopTracking(pr[1], pr[2])
    \/ LegacyStopSession
    \/ performMigration

\* the status-timestamp variant, and the migration of its table
LegacySpec == Init /\ [][LegacyNext]_vars

(* ------------------------- the gateway variant ------------------------ *)
\* DatabaseManager of database.ts under the TimeTrackingManager of
\* trackingManager.ts (lines 21-347).  A handler awaits the channel check,
\* then runs its store calls (better-sqlite3, synchronous) without an await
\* between them, then awaits its replies.  A (userId, guildId) pair with no
\* row in user_stats has the totals 0 that COALESCE gives it.  The status
\* 'stopped' is written STOPPED.
\* rows of table sessions of the variant
GwMaxSessions == 2
\* calls of the variant that change a session
GwMaxCalls == 4

GwSessionIds == 1..Len(gwSessions)

\* fault: the status of the row is not looked at
GwOpenIds_AnyStatus(userId, guildId) ==
    {s \in GwSessionIds : /\ gwSessions[s].userId = userId
                          /\ gwSessions[s].guildId = guildId}

\* getActiveSession: WHERE userId, guildId, status IN ('active', 'paused')
GwOpenIds(userId, guildId) ==
    {s \in GwSessionIds : /\ gwSessions[s].userId = userId
                          /\ gwSessions[s].guildId = guildId
                          /\ gwSessions[s].status \in OpenStatuses}

\* getActiveSession: ORDER BY createdAt DESC LIMIT 1, or null
GwActiveSession(userId, guildId) ==
    IF GwOpenIds(userId, guildId) = {} THEN NoSession
    ELSE CHOOSE s \in GwOpenIds(userId, guildId) :
           \A x \in GwOpenIds(userId, guildId) : x <= s

\* Math.max(0, sessionDuration - (session.pausedTime || 0))
GwAdjustedDuration(session, endTime) ==
    LET sessionDuration == endTime - session.startTime IN
    IF sessionDuration - session.pausedTime > 0
    THEN sessionDuration - session.pausedTime
    ELSE 0

\* updateUserStats: INSERT OR REPLACE with totalTimeMs + ?, sessionsCount + 1
updateUserStats(userId, guildId, sessionTimeMs) ==
    [user_stats EXCEPT ![<<userId, guildId>>] =
       [totalTimeMs |-> @.totalTimeMs + sessionTimeMs,
        sessionsCount |-> @.sessionsCount + 1]]

\* endPause: the pause rows of the session with pauseEndTime IS NULL
GwOpenPauses(sid) ==
    {i \in DOMAIN pause_sessions : /\ pause_sessions[i].sessionId = sid
                                   /\ pause_sessions[i].pauseEndTime = NoTime}

\* endPause: ORDER BY pauseStartTime DESC LIMIT 1 -- among equal start times
\* any of the rows
GwLatestOpenPauses(sid) ==
    {i \in GwOpenPauses(sid) :
       \A j \in GwOpenPauses(sid) :
          pause_sessions[j].pauseStartTime <= pause_sessions[i].pauseStartTime}

\* handlers under way that will still insert a session row / change a session
GwPendingStarts ==
    Cardinality({q \in Procs : gwProcs[q].pc = "run" /\ gwProcs[q].op = "start"})
GwInFlight == Cardinality({q \in Procs : gwProcs[q].pc = "run"})

\* an interaction arrives; the handler awaits validateTrackingChannel, which
\* lets it pass
GwInvoke(p, op, userId, guildId) ==
    /\ gwProcs[p].pc = "idle"
    /\ Len(gwLog) + GwInFlight < GwMaxCalls
    /\ op = "start" => Len(gwSessions) + GwPendingStarts < GwMaxSessions
    /\ gwProcs' = [gwProcs EXCEPT ![p] =
                     [GwIdleProc EXCEPT !.pc = "run", !.op = op,
                                        !.userId = userId, !.guildId = guildId]]
    /\ UNCHANGED <<gwSessions, pause_sessions, user_stats, gwLog>>
    /\ UNCHANGED <<dbVars, guildSettings, now, procs, inflight, calcVars, agg,
                   legacyVars>>

GwDone(p, sid, outcome, adjustedDuration) ==
    [gwProcs EXCEPT ![p] = [@ EXCEPT !.pc = "done", !.sid = sid,
                                     !.outcome = outcome,
                                     !.adjustedDuration = adjustedDuration]]

GwLogEntry(sid, eventType, timestamp, durationMs) ==
    [sessionId |-> sid, eventType |-> eventType, timestamp |-> timestamp,
     durationMs |-> durationMs]

\* startTracking: getActiveSession, createSession
GwStartTracking(p) ==
    /\ gwProcs[p].pc = "run"
    /\ gwProcs[p].op = "start"
    /\ LET sid == GwActiveSession(gwProcs[p].userId, gwProcs[p].guildId) IN
       IF sid # NoSession
       THEN /\ gwProcs' = GwDone(p, sid, "alreadyActive", NoTime)
            /\ UNCHANGED <<gwSessions, gwLog>>
       ELSE /\ gwSessions' = Append(gwSessions,
                                    [userId |-> gwProcs[p].userId,
                                     guildId |-> gwProcs[p].guildId,
                                     startTime |-> now, endTime |-> NoTime,
                                     pausedTime |-> 0, status |-> "ACTIVE"])
            /\ gwLog' = Append(gwLog, GwLogEntry(Len(gwSessions) + 1, "START",
                                                 now, NoTime))
            /\ gwProcs' = GwDone(p, Len(gwSessions) + 1, "started", NoTime)
    /\ UNCHANGED <<pause_sessions, user_stats>>
    /\ UNCHANGED <<dbVars, guildSettings, now, procs, inflight, calcVars, agg,
                   legacyVars>>

\* stopTracking: getActiveSession, updateSession, updateUserStats
GwStopTracking(p) ==
    /\ gwProcs[p].pc = "run"
    /\ gwProcs[p].op = "stop"
    /\ LET sid == GwActiveSession(gwProcs[p].userId, gwProcs[p].guildId) IN
       IF sid = NoSession
       THEN /\ gwProcs' = GwDone(p, NoSession, "noActiveSession", NoTime)
            /\ UNCHANGED <<gwSessions, user_stats, gwLog>>
       ELSE LET adjustedDuration == GwAdjustedDuration(gwSessions[sid], now) IN
            /\ gwSessions' = [gwSessions EXCEPT ![sid].endTime = now,
                                                ![sid].status = "STOPPED"]
            /\ user_stats' = updateUserStats(gwProcs[p].userId, gwProcs[p].guildId,
                                             adjustedDuration)
            /\ gwLog' = Append(gwLog, GwLogEntry(sid, "STOP", now, adjustedDuration))
            /\ gwProcs' = GwDone(p, sid, "ok", adjustedDuration)
    /\ UNCHANGED pause_sessions
    /\ UNCHANGED <<dbVars, guildSettings, now, procs, inflight, calcVars, agg,
                   legacyVars>>

\* pauseTracking: getActiveSession, startPause, updateSession
GwPauseTracking(p) ==
    /\ gwProcs[p].pc = "run"
    /\ gwProcs[p].op = "pause"
    /\ LET sid == GwActiveSession(gwProcs[p].userId, gwProcs[p].guildId) IN
       IF sid = NoSession
       THEN /\ gwProcs' = GwDone(p, NoSession, "noActiveSession", NoTime)
            /\ UNCHANGED <<gwSessions, pause_sessions, gwLog>>
       ELSE IF gwSessions[sid].status = "PAUSED"
       THEN /\ gwProcs' = GwDone(p, sid, "alreadyPaused", NoTime)
            /\ UNCHANGED <<gwSessions, pause_sessions, gwLog>>
       ELSE /\ pause_sessions' = Append(pause_sessions,
                                        [sessionId |-> sid, pauseStartTime |-> now,
                                         pauseEndTime |-> NoTime])
            /\ gwSessions' = [gwSessions EXCEPT ![sid].status = "PAUSED"]
            /\ gwLog' = Append(gwLog, GwLogEntry(sid, "PAUSE", now, NoTime))
            /\ gwProcs' = GwDone(p, sid, "ok", NoTime)
    /\ UNCHANGED user_stats
    /\ UNCHANGED <<dbVars, guildSettings, now, procs, inflight, calcVars, agg,
                   legacyVars>>

\* resumeTracking: getActiveSession, endPause, updateSession
GwResumeTracking(p) ==
    /\ gwProcs[p].pc = "run"
    /\ gwProcs[p].op = "resume"
    /\ LET sid == GwActiveSession(gwProcs[p].userId, gwProcs[p].guildId) IN
       IF sid = NoSession
       THEN /\ gwProcs' = GwDone(p, NoSession, "noActiveSession", NoTime)
            /\ UNCHANGED <<gwSessions, pause_sessions, gwLog>>
       ELSE IF gwSessions[sid].status = "ACTIVE"
       THEN /\ gwProcs' = GwDone(p, sid, "alreadyRunning", NoTime)
            /\ UNCHANGED <<gwSessions, pause_sessions, gwLog>>
       ELSE /\ IF GwOpenPauses(sid) = {}
               THEN /\ UNCHANGED pause_sessions
                    /\ gwSessions' = [gwSessions EXCEPT ![sid].status = "ACTIVE"]
               ELSE \E i \in GwLatestOpenPauses(sid) :
                      LET pauseDuration == now - pause_sessions[i].pauseStartTime IN
                      /\ pause_sessions' =
                           [pause_sessions EXCEPT ![i].pauseEndTime = now]
                      /\ gwSessions' =
                           [gwSessions EXCEPT
                              ![sid].status = "ACTIVE",
                              ![sid].pausedTime = @ + pauseDuration]
            /\ gwLog' = Append(gwLog, GwLogEntry(sid, "RESUME", now, NoTime))
            /\ gwProcs' = GwDone(p, sid, "ok", NoTime)
    /\ UNCHANGED user_stats
    /\ UNCHANGED <<dbVars, guildSettings, now, procs, inflight, calcVars, agg,
                   legacyVars>>

\* the awaited replies and notifications are through
GwRespond(p) ==
    /\ gwProcs[p].pc = "done"
    /\ gwProcs' = [gwProcs EXCEPT ![p] = GwIdleProc]
    /\ UNCHANGED <<gwSessions, pause_sessions, user_stats, gwLog>>
    /\ UNCHANGED <<dbVars, guildSettings, now, procs, inflight, calcVars, agg,
                   legacyVars>>

GwNext ==
    \/ Tick
    \/ \E p \in Procs, op \in Ops, pr \in RacePairs : GwInvoke(p, op, pr[1], pr[2])
    \/ \E p \in Procs : GwStartTracking(p)
    \/ \E p \in Procs : GwStopTracking(p)
    \/ \E p \in Procs : GwPauseTracking(p)
    \/ \E p \in Procs : GwResumeTracking(p)
    \/ \E p \in Procs : GwRespond(p)

\* the gateway variant with the handlers of one process interleaving at
\* their awaits
GwSpec == Init /\ [][GwNext]_vars

(* ------------------------- properties: calculator --------------------- *)
\* START first, then PAUSE and RESUME in turn, a STOP only as the last event
WellFormed(evs) ==
    /\ Len(evs) >= 1
    /\ evs[1].eventType = "START"
    /\ \A i \in 2..Len(evs) :
         \/ evs[i].eventType = "STOP" /\ i = Len(evs)
         \/ evs[i].eventType = (IF i % 2 = 0 THEN "PAUSE" ELSE "RESUME")

Ascending(evs) ==
    \A i \in 1..(Len(evs) - 1) : evs[i].timestamp <= evs[i + 1].timestamp

\* the lengths of the active intervals, added up: each START or RESUME opens
\* one, and it runs to the next event, or to the reference time after the last
RECURSIVE ActiveIntervals(_, _, _)
ActiveIntervals(evs, i, ref) ==
    IF i > Len(evs) THEN 0
    ELSE (IF evs[i].eventType \in {"START", "RESUME"}
          THEN (IF i < Len(evs) THEN evs[i + 1].timestamp ELSE ref)
               - evs[i].timestamp
          ELSE 0)
         + ActiveIntervals(evs, i + 1, ref)

\* C3: for a well-formed event list in timestamp order and a reference time
\* not earlier than its last event, calculateSessionDuration returns the sum
\* of the lengths of the active intervals; paused time is not counted.
C3_DurationIsSumOfActiveIntervals ==
    (/\ calcResult.op = "plain"
     /\ WellFormed(calcEvents)
     /\ Ascending(calcEvents)
     /\ calcTime >= LastTimestamp(calcEvents))
    => calcResult.value = ActiveIntervals(calcEvents, 1, calcTime)

\* START, PAUSE, RESUME, STOP with a pause gap: only the two active spans count
C3_Witness ==
    /\ calcResult.op = "plain"
    /\ Len(calcEvents) = 4
    /\ WellFormed(calcEvents)
    /\ calcEvents[4].eventType = "STOP"
    /\ calcEvents[3].timestamp > calcEvents[2].timestamp
    /\ calcResult.value = (calcEvents[2].timestamp - calcEvents[1].timestamp)
                          + (calcEvents[4].timestamp - calcEvents[3].timestamp)
    /\ calcResult.value > 0

\* C4: the duration of an event list at time now equals the duration of the
\* list followed by a STOP event at now, at every reference time.
C4_ClosingKeepsTotal ==
    calcResult.op = "closed"
    => \A t \in DOMAIN calcResult.closed : calcResult.closed[t] = calcResult.value

\* a session that is running when it is stopped, some time after its RESUME
C4_Witness ==
    /\ calcResult.op = "closed"
    /\ WellFormed(calcEvents)
    /\ Len(calcEvents) = 3
    /\ calcEvents[3].eventType = "RESUME"
    /\ calcTime > LastTimestamp(calcEvents)
    /\ calcResult.value > 0
    /\ \E t \in DOMAIN calcResult.closed : t # calcTime

(* ---------------------- properties: lifecycle manager ----------------- *)
\* the sessions of a pair that are ACTIVE or PAUSED
OpenOf(userId, guildId) ==
    {s \in 1..Len(sessions) : /\ sessions[s].userId = userId
                              /\ sessions[s].guildId = guildId
                              /\ sessions[s].status \in {"ACTIVE", "PAUSED"}}

\* C1: with the manager's calls running one at a time, every (userId, guildId)
\* pair has at most one session whose status is ACTIVE or PAUSED.
C1_AtMostOneOpenSession ==
    \A u \in Users, g \in Guilds : Cardinality(OpenOf(u, g)) <= 1

\* a pair that was stopped and started again: a COMPLETED and an ACTIVE session
C1_Witness ==
    \E s1, s2 \in 1..Len(sessions) :
        /\ s1 # s2
        /\ sessions[s1].userId = sessions[s2].userId
        /\ sessions[s1].guildId = sessions[s2].guildId
        /\ sessions[s1].status = "COMPLETED"
        /\ sessions[s2].status \in {"ACTIVE", "PAUSED"}

\* the handler whose store write is this step
Writer(p) == procs[p].pc \in {"dbWrite", "create"} /\ procs'[p].pc # procs[p].pc

StatusEdges ==
    {<<"ACTIVE", "PAUSED", "pause">>, <<"ACTIVE", "COMPLETED", "stop">>,
     <<"PAUSED", "ACTIVE", "resume">>, <<"PAUSED", "COMPLETED", "stop">>}

\* C5: with the manager's calls running one at a time, a session's status
\* changes only along ACTIVE -> PAUSED (pause), ACTIVE -> COMPLETED (stop),
\* PAUSED -> ACTIVE (resume), PAUSED -> COMPLETED (stop); a new session is
\* ACTIVE and comes from a start call.
C5_StatusEdges ==
    [][\A s \in 1..Len(sessions') :
         IF s <= Len(sessions)
         THEN sessions'[s].status # sessions[s].status
              => \E p \in Procs :
                   /\ Writer(p)
                   /\ <<sessions[s].status, sessions'[s].status, procs[p].op>>
                        \in StatusEdges
         ELSE /\ sessions'[s].status = "ACTIVE"
              /\ \E p \in Procs : Writer(p) /\ procs[p].op = "start"]_vars

\* a session that went ACTIVE -> PAUSED -> ACTIVE -> COMPLETED
C5_Witness ==
    \E s \in 1..Len(sessions) :
        /\ sessions[s].status = "COMPLETED"
        /\ Len(EventsOf(s)) = 4

\* C7: every order by timestamp the store can return for a session's
\* events is one START, then PAUSE and RESUME in turn, then at most one STOP.
C7_EventsWellFormed ==
    \A s \in 1..Len(sessions) : \A evs \in ListEvents(s) : WellFormed(evs)

(* ------------------- properties: concurrent handlers ------------------ *)
\* C2: with two start calls of a pair interleaving at their awaited
\* store calls, the pair never has two sessions with status ACTIVE or PAUSED.
C2_ConcurrentStartsOneOpenSession ==
    \A s1, s2 \in 1..Len(sessions) :
        (/\ sessions[s1].userId = sessions[s2].userId
         /\ sessions[s1].guildId = sessions[s2].guildId
         /\ sessions[s1].status \in {"ACTIVE", "PAUSED"}
         /\ sessions[s2].status \in {"ACTIVE", "PAUSED"})
        => s1 = s2

\* C6: with handlers interleaving, a COMPLETED session stays
\* COMPLETED and is never removed.
C6_CompletedIsFinal ==
    [][\A s \in 1..Len(sessions) :
         sessions[s].status = "COMPLETED"
         => /\ s <= Len(sessions')
            /\ sessions'[s].status = "COMPLETED"]_vars

\* the PAUSE and RESUME events of a list, in their order
PauseResume(evs) == SelectSeq(evs, LAMBDA e : e.eventType \in {"PAUSE", "RESUME"})

\* C8: with pause, resume and stop handlers interleaving, no event
\* is stored for a session after its STOP event, and no session holds two
\* PAUSE or two RESUME events with no event of the other kind between them.
C8_NoEventAfterStopNoDoublePause ==
    \A s \in 1..Len(sessions) :
        LET evs == EventsOf(s)
            pr == PauseResume(evs)
        IN /\ \A i \in 1..Len(evs) : evs[i].eventType = "STOP" => i = Len(evs)
           /\ \A i \in 1..(Len(pr) - 1) : pr[i].eventType # pr[i + 1].eventType

(* ------------------------ properties: the stores ---------------------- *)
StatusFor(eventType) ==
    CASE eventType \in {"START", "RESUME"} -> "ACTIVE"
      [] eventType = "PAUSE" -> "PAUSED"
      [] eventType = "STOP" -> "COMPLETED"

\* C9: whenever no store call is under way, also after a crash
\* between two store writes, a session's status agrees with the type of its
\* most recently appended event.
C9_StatusAgreesWithLastEvent ==
    inflight = NoCall
    => \A s \in 1..Len(sessions) :
         LET evs == EventsOf(s) IN
         Len(evs) > 0 => sessions[s].status = StatusFor(evs[Len(evs)].eventType)

\* C10: pauseSession for a pair whose open session is PAUSED, and
\* resumeSession for a pair whose open session is ACTIVE, fail, append no event
\* and leave the status unchanged.
C10_StoreRejectsIllegalTransition ==
    [][\A p \in Procs :
         (/\ procs[p].layer = "store"
          /\ procs[p].pc = "dbWrite"
          /\ procs'[p].pc = "done"
          /\ \/ procs[p].op = "pause" /\ sessions[procs[p].dbSid].status = "PAUSED"
             \/ procs[p].op = "resume" /\ sessions[procs[p].dbSid].status = "ACTIVE")
         => /\ procs'[p].outcome = "exception"
            /\ session_events' = session_events
            /\ sessions' = sessions]_vars

\* C11: startSession of the store, called for a pair that has an ACTIVE or
\* PAUSED session, fails with an error and creates neither a session row nor
\* a START event.
C11_StartSessionRejectsOpenPair ==
    [][\A p \in Procs :
         (/\ procs[p].layer = "store"
          /\ procs[p].op = "start"
          /\ procs[p].pc = "create"
          /\ procs'[p].pc = "done"
          /\ OpenOf(procs[p].userId, procs[p].guildId) # {})
         => /\ procs'[p].outcome = "exception"
            /\ sessions' = sessions
            /\ session_events' = session_events]_vars

\* C12: whenever no store call is under way, also after a crash in the
\* middle of startSession, every stored session has a START event.
C12_SessionHasStartEvent ==
    inflight = NoCall
    => \A s \in 1..Len(sessions) :
         \E i \in 1..Len(EventsOf(s)) : EventsOf(s)[i].eventType = "START"

(* ------------------ properties: the calls of the manager -------------- *)
\* the step in which a handler of the manager gets its getActiveSession answer
ReadsSession(p, op) ==
    /\ procs[p].layer = "manager"
    /\ procs[p].op = op
    /\ procs[p].pc = "mgrRead"
    /\ procs'[p] # procs[p]

\* C13: a start call, past the channel check, for a pair that has an ACTIVE
\* or PAUSED session creates no session, appends no event and leaves the
\* status unchanged; it reports that session, its status and the duration the
\* calculator gives for its stored events at the time of the call, and the
\* pair still has exactly one open session.
C13_StartOnOpenPairChangesNothing ==
    [][\A p \in Procs :
         (/\ ReadsSession(p, "start")
          /\ OpenOf(procs[p].userId, procs[p].guildId) # {})
         => /\ procs'[p].pc = "done"
            /\ procs'[p].outcome = "alreadyActive"
            /\ sessions' = sessions
            /\ session_events' = session_events
            /\ procs'[p].sid \in OpenOf(procs[p].userId, procs[p].guildId)
            /\ procs'[p].status = sessions[procs'[p].sid].status
            /\ procs'[p].dur \in {calculateSessionDuration(evs, now) :
                                    evs \in ListEvents(procs'[p].sid)}
            /\ Cardinality({s \in 1..Len(sessions') :
                              /\ sessions'[s].userId = procs[p].userId
                              /\ sessions'[s].guildId = procs[p].guildId
                              /\ sessions'[s].status \in {"ACTIVE", "PAUSED"}}) = 1]_vars

\* a start call answered with the PAUSED session of the pair and its duration
C13_Witness ==
    \E p \in Procs :
        /\ procs[p].pc = "done"
        /\ procs[p].op = "start"
        /\ procs[p].outcome = "alreadyActive"
        /\ procs[p].status = "PAUSED"
        /\ procs[p].dur > 0
        /\ Len(sessions) = 1

\* C14: a start call, past the channel check, for a pair with no ACTIVE or
\* PAUSED session creates exactly one session; it is ACTIVE, its event list
\* is one START event at the timestamp of the call, every other row stays as
\* it was, and the duration of that list at that timestamp is 0.
C14_StartCreatesOneActiveSession ==
    [][\A p \in Procs :
         /\ (/\ ReadsSession(p, "start")
             /\ OpenOf(procs[p].userId, procs[p].guildId) = {})
            => /\ procs'[p].pc = "create"
               /\ procs'[p].t = now
               /\ sessions' = sessions
               /\ session_events' = session_events
         /\ (/\ procs[p].layer = "manager"
             /\ procs[p].pc = "create"
             /\ procs'[p] # procs[p])
            => LET new == Len(sessions) + 1
                   evs == SelectSeq(session_events',
                                    LAMBDA e : e.sessionId = new)
               IN /\ procs'[p].outcome = "started"
                  /\ procs'[p].sid = new
                  /\ sessions' = Append(sessions,
                                        [userId |-> procs[p].userId,
                                         guildId |-> procs[p].guildId,
                                         status |-> "ACTIVE"])
                  /\ Len(session_events') = Len(session_events) + 1
                  /\ SubSeq(session_events', 1, Len(session_events))
                       = session_events
                  /\ evs = <<[sessionId |-> new, eventType |-> "START",
                              timestamp |-> procs[p].t]>>
                  /\ calculateSessionDuration(evs, procs[p].t) = 0]_vars

\* a session created some time after the call read the clock
C14_Witness ==
    \E p \in Procs :
        /\ procs[p].pc = "done"
        /\ procs[p].op = "start"
        /\ procs[p].layer = "manager"
        /\ procs[p].outcome = "started"
        /\ procs[p].t < now
        /\ sessions[procs[p].sid].status = "ACTIVE"
        /\ EventsOf(procs[p].sid) =
             <<[sessionId |-> procs[p].sid, eventType |-> "START",
                timestamp |-> procs[p].t]>>

\* C15: a stop call, past the channel check, for a pair with no ACTIVE or
\* PAUSED session returns the no-open-session error; no step of the call
\* appends an event, creates a session or changes a status.
C15_StopWithoutSessionChangesNothing ==
    [][\A p \in Procs :
         /\ (/\ ReadsSession(p, "stop")
             /\ OpenOf(procs[p].userId, procs[p].guildId) = {})
            => /\ procs'[p].pc = "done"
               /\ procs'[p].outcome = "noActiveSession"
               /\ sessions' = sessions
               /\ session_events' = session_events
         /\ (/\ procs[p].op = "stop"
             /\ procs[p].pc = "validate"
             /\ procs'[p] # procs[p])
            => /\ sessions' = sessions
               /\ session_events' = session_events]_vars

\* a stop call rejected for a pair whose only session is COMPLETED
C15_Witness ==
    \E p \in Procs :
        /\ procs[p].pc = "done"
        /\ procs[p].op = "stop"
        /\ procs[p].outcome = "noActiveSession"
        /\ \E s \in 1..Len(sessions) :
             /\ sessions[s].userId = procs[p].userId
             /\ sessions[s].guildId = procs[p].guildId
             /\ sessions[s].status = "COMPLETED"
             /\ Len(EventsOf(s)) = 2

\* the step in which a handler of the manager has its store write done
WritesSession(p, op) ==
    /\ procs[p].layer = "manager"
    /\ procs[p].op = op
    /\ procs[p].pc = "dbWrite"
    /\ procs'[p] # procs[p]

\* the reference times of the model
RefTimes == 0..(MaxClock + 1)

\* C16: with the calls running one at a time, a successful stop call appends
\* a STOP event at its timestamp, sets the session to COMPLETED, and the
\* duration it returns equals calculateSessionDuration over the session's
\* stored events, as the store returns them afterwards, at every reference
\* time.
C16_StopReturnsFinalDuration ==
    [][\A p \in Procs :
         WritesSession(p, "stop")
         => LET sid == procs[p].dbSid
                after == SelectSeq(session_events', LAMBDA e : e.sessionId = sid)
            IN /\ session_events' = Append(session_events,
                                           [sessionId |-> sid, eventType |-> "STOP",
                                            timestamp |-> procs[p].t])
               /\ sessions'[sid].status = "COMPLETED"
               /\ procs'[p].outcome = "ok"
               /\ \A evs \in OrderedByTimestamp(after), ref \in RefTimes :
                    calculateSessionDuration(evs, ref) = procs'[p].dur]_vars

\* the events stored for a session and its status, before and after a step
SessionUntouched(sid) ==
    /\ sessions'[sid] = sessions[sid]
    /\ SelectSeq(session_events', LAMBDA e : e.sessionId = sid) = EventsOf(sid)

C18_PauseReturnsFrozenDuration ==
    [][\A p \in Procs :
         WritesSession(p, "pause")
         => LET sid == procs[p].dbSid
                after == SelectSeq(session_events', LAMBDA e : e.sessionId = sid)
            IN /\ sessions[sid].status = "ACTIVE"
               /\ session_events' = Append(session_events,
                                           [sessionId |-> sid, eventType |-> "PAUSE",
                                            timestamp |-> procs[p].t])
               /\ sessions'[sid].status = "PAUSED"
               /\ procs'[p].outcome = "ok"
               /\ \A evs \in OrderedByTimestamp(after) :
                    \A ref \in {r \in RefTimes : r >= procs[p].t} :
                       calculateSessionDuration(evs, ref) = procs'[p].dur]_vars

BeforeLast(sid) == SubSeq(EventsOf(sid), 1, Len(EventsOf(sid)) - 1)

\* C20: with the calls running one at a time, a successful resume call on a
\* PAUSED session appends a RESUME event at its timestamp and sets the status
\* to ACTIVE, and the duration it returns is the duration the session had at
\* the preceding PAUSE: the sum of the active intervals up to that PAUSE, with
\* nothing added for the time between the PAUSE and the RESUME.
C20_ResumeReturnsDurationAtPause ==
    [][\A p \in Procs :
         /\ WritesSession(p, "resume")
            => LET sid == procs[p].dbSid IN
               /\ sessions[sid].status = "PAUSED"
               /\ session_events' = Append(session_events,
                                           [sessionId |-> sid, eventType |-> "RESUME",
                                            timestamp |-> procs[p].t])
               /\ sessions'[sid].status = "ACTIVE"
         /\ (/\ procs[p].layer = "manager"
             /\ procs[p].op = "resume"
             /\ procs[p].pc = "mgrCalc"
             /\ procs'[p] # procs[p])
            => LET pre == BeforeLast(procs[p].dbSid) IN
               /\ procs'[p].outcome = "ok"
               /\ pre[Len(pre)].eventType = "PAUSE"
               /\ procs'[p].dur =
                    ActiveIntervals(pre, 1, pre[Len(pre)].timestamp)]_vars

(* ------------------ properties: calculator, any input ----------------- *)
\* C21: calculateSessionDuration returns a value greater than or equal to 0
\* for every event list and every reference time, also for lists that are not
\* in ascending timestamp order and for reference times earlier than the last
\* START or RESUME.
C21_DurationNeverNegative ==
    calcResult.op = "plain" => calcResult.value >= 0

\* C22: for every event list and reference time, the same events passed in
\* any other order give the same result.
C22_OrderOfEventsIrrelevant ==
    calcResult.op = "permuted"
    => \A f \in DOMAIN calcResult.closed : calcResult.closed[f] = calcResult.value

\* a list without its i-th event
Without(evs, i) == [j \in 1..(Len(evs) - 1) |-> IF j < i THEN evs[j] ELSE evs[j + 1]]

\* a PAUSE or STOP that no START or RESUME directly before it has left open
ClosesNothing(evs, i) ==
    /\ evs[i].eventType \in {"PAUSE", "STOP"}
    /\ i = 1 \/ evs[i - 1].eventType \in {"PAUSE", "STOP"}

\* C23: on a malformed event list calculateSessionDuration gives a result in
\* which a PAUSE or STOP with no unclosed START or RESUME before it counts 0
\* (the list without that event has the same duration); the empty list gives
\* 0, and a list that holds only a PAUSE event gives 0.
C23_MalformedListsCountZero ==
    calcResult.op = "plain"
    => /\ Len(calcEvents) = 0 => calcResult.value = 0
       /\ (Len(calcEvents) = 1 /\ calcEvents[1].eventType = "PAUSE")
          => calcResult.value = 0
       /\ \A i \in 1..Len(calcEvents) :
            ClosesNothing(calcEvents, i)
            => calcResult.value
                 = calculateSessionDuration(Without(calcEvents, i), calcTime)

\* PAUSE, START, STOP: the leading PAUSE counts nothing, the rest counts
C23_Witness ==
    /\ calcResult.op = "plain"
    /\ Len(calcEvents) = 3
    /\ calcEvents[1].eventType = "PAUSE"
    /\ calcEvents[2].eventType = "START"
    /\ calcEvents[3].eventType = "STOP"
    /\ calcEvents[1].timestamp > 0
    /\ calcResult.value = calcEvents[3].timestamp - calcEvents[2].timestamp
    /\ calcResult.value > 0

(* ------------------------ properties: aggregation --------------------- *)
\* the sessions of a pair, whatever their status
SessionsOf(userId, guildId) ==
    {s \in 1..Len(sessions) : /\ sessions[s].userId = userId
                              /\ sessions[s].guildId = guildId}

\* the durations of a set of sessions at reference time t, added up, each
\* session's events taken from the rows in the given order
RECURSIVE SumOfDurations(_, _, _)
SumOfDurations(S, order, t) ==
    IF S = {} THEN 0
    ELSE LET s == CHOOSE x \in S : TRUE IN
         calculateSessionDuration(SelectSeq(order, LAMBDA e : e.sessionId = s), t)
         + SumOfDurations(S \ {s}, order, t)

StatsReturned == agg.pc = "done" /\ agg.op = "stats"

\* C24: getUserStats(userId, guildId) returns sessionsCount equal to the
\* number of all sessions of the pair, whatever their status or duration, and
\* totalTimeMs equal to the sum over those sessions of calculateSessionDuration
\* of the session's events as the store returns them, at the time of the call.
C24_StatsCountAllSessions ==
    StatsReturned
    => /\ agg.stats.sessionsCount
            = Cardinality(SessionsOf(agg.userId, agg.guildId))
       /\ \E order \in OrderedByTimestamp(session_events) :
            agg.stats.totalTimeMs
              = SumOfDurations(SessionsOf(agg.userId, agg.guildId), order, agg.t)

\* a pair with a finished session of duration 0 and a running one
C24_Witness ==
    /\ StatsReturned
    /\ agg.stats.sessionsCount = 2
    /\ agg.stats.totalTimeMs > 0
    /\ \E s1, s2 \in SessionsOf(agg.userId, agg.guildId) :
         /\ sessions[s1].status = "COMPLETED"
         /\ Len(EventsOf(s1)) = 2
         /\ EventsOf(s1)[1].timestamp = EventsOf(s1)[2].timestamp
         /\ sessions[s2].status = "ACTIVE"

\* the users with a session in a guild
UsersOfGuild(guildId) ==
    {sessions[s].userId : s \in {x \in 1..Len(sessions) :
                                   sessions[x].guildId = guildId}}

LeaderboardReturned == agg.pc = "done" /\ agg.op = "leaderboard"

\* the users getLeaderboard found with a total above 0, as positions of the
\* list of the totals it computed
AboveZero == {k \in 1..Len(agg.seen) : agg.seen[k].totalTimeMs > 0}

\* C25: getLeaderboard(guildId, limit) computes a total for exactly the
\* users with a session in the guild and returns those whose total is above
\* 0, each once, in non-increasing order of total, cut to the first limit
\* entries; a user left out by the cut has no larger total than a user
\* returned.
C25_LeaderboardSortedAndCut ==
    LeaderboardReturned
    => LET R == agg.result IN
       /\ {agg.seen[k].userId : k \in 1..Len(agg.seen)} = UsersOfGuild(agg.guildId)
       /\ \A k \in 1..Len(agg.seen) :
            \E order \in OrderedByTimestamp(session_events), t \in 0..now :
               agg.seen[k].totalTimeMs
                 = SumOfDurations(SessionsOf(agg.seen[k].userId, agg.guildId),
                                  order, t)
       /\ \A i \in 1..Len(R) : R[i].totalTimeMs > 0
       /\ \A i \in 1..Len(R) : \E k \in AboveZero : agg.seen[k] = R[i]
       /\ \A i, j \in 1..Len(R) : i # j => R[i].userId # R[j].userId
       /\ \A i, j \in 1..Len(R) : i < j => R[i].totalTimeMs >= R[j].totalTimeMs
       /\ Len(R) = (IF agg.limit < Cardinality(AboveZero)
                    THEN agg.limit ELSE Cardinality(AboveZero))
       /\ \A k \in AboveZero :
            (\A i \in 1..Len(R) : R[i] # agg.seen[k])
            => \A i \in 1..Len(R) : R[i].totalTimeMs >= agg.seen[k].totalTimeMs

\* two users found in ascending order of their totals come back in descending
C25_Witness ==
    /\ LeaderboardReturned
    /\ Len(agg.seen) = 2
    /\ 0 < agg.seen[1].totalTimeMs
    /\ agg.seen[1].totalTimeMs < agg.seen[2].totalTimeMs
    /\ agg.result = <<agg.seen[2], agg.seen[1]>>

\* the timestamps of the events of the sessions of a pair
TimestampsOf(userId, guildId) ==
    {session_events[i].timestamp :
       i \in {k \in 1..Len(session_events) :
                session_events[k].sessionId \in SessionsOf(userId, guildId)}}

\* C26: the lastSeen value getUserStats returns is the largest timestamp
\* over all events of all sessions of the pair, and it is null exactly when
\* the pair has no event.
C26_LastSeenIsLatestEvent ==
    StatsReturned
    => LET ts == TimestampsOf(agg.userId, agg.guildId) IN
       IF ts = {} THEN agg.stats.lastSeen = NoTime
       ELSE /\ agg.stats.lastSeen \in ts
            /\ \A x \in ts : x <= agg.stats.lastSeen

\* a pair with two sessions, the later one holding the latest event
C26_Witness ==
    /\ StatsReturned
    /\ Cardinality(SessionsOf(agg.userId, agg.guildId)) = 2
    /\ Cardinality(TimestampsOf(agg.userId, agg.guildId)) >= 2
    /\ agg.stats.lastSeen > 0

(* -------------- properties: results and the event table --------------- *)
\* what a call of the manager returns: a success, the wrong-channel
\* rejection, or one of its precondition errors
ManagerResults ==
    {"started", "ok", "alreadyActive", "wrongChannel",
     "noActiveSession", "alreadyPaused", "alreadyRunning"}

\* C27: every start, pause, resume and stop call of the manager ends in a
\* success result or one of the precondition errors, also when another
\* handler of the pair completes a stop between the call's getActiveSession
\* and its store write; the store's "No active session found" exception does
\* not reach the caller.
C27_NoStoreExceptionReachesCaller ==
    \A p \in Procs :
        (procs[p].layer = "manager" /\ procs[p].pc = "done")
        => procs[p].outcome \in ManagerResults

\* C28: events are append-only, also with handlers interleaving: a step
\* leaves every stored event as it is and removes none; a step that adds
\* events adds one, and it is the one store write of a start, pause, resume
\* or stop call, after which that call writes no more.
C28_EventsAppendOnly ==
    [][/\ Len(session_events') >= Len(session_events)
       /\ SubSeq(session_events', 1, Len(session_events)) = session_events
       /\ Len(session_events') <= Len(session_events) + 1
       /\ session_events' # session_events
          => \E p \in Procs :
               /\ procs[p].pc \in {"create", "dbWrite"}
               /\ procs'[p].pc \in {"mgrCalc", "done"}
               /\ \A q \in Procs \ {p} : procs'[q] = procs[q]
       /\ \A p \in Procs :
            (procs[p].pc \in {"mgrCalc", "done"} /\ procs'[p] # procs[p])
            => session_events' = session_events]_vars

\* one session with its four events, written by four calls
C28_Witness ==
    /\ Len(session_events) = 4
    /\ \A i \in 1..4 : session_events[i].sessionId = 1
    /\ session_events[1].eventType = "START"
    /\ session_events[2].eventType = "PAUSE"
    /\ session_events[3].eventType = "RESUME"
    /\ session_events[4].eventType = "STOP"

\* the calculator is left with an unclosed START or RESUME after the list
Running(evs) == CalcLoop(evs, 1, [total |-> 0, las |-> NoTime]).las # NoTime

\* C30: in every state, replaying a session's events in any order by
\* timestamp the store can return leaves the calculator running exactly when
\* the session's status is ACTIVE, also when two events of the session carry
\* the same timestamp.
C30_ReplayAgreesWithStatus ==
    \A s \in 1..Len(sessions) :
        \A evs \in ListEvents(s) :
            Running(evs) <=> sessions[s].status = "ACTIVE"

(* ----------------- properties: the status-timestamp variant ----------- *)
\* the calls that changed a session, as the events the event-sourced store
\* records for the same calls at the same clock readings
OldEventsOf(sid) == SelectSeq(oldLog, LAMBDA e : e.sessionId = sid)

\* the durations stopTracking reported for a session
OldStopReported(sid) ==
    {oldLog[i].adjustedTime : i \in {j \in DOMAIN oldLog :
                                       /\ oldLog[j].sessionId = sid
                                       /\ oldLog[j].eventType = "STOP"}}

\* C31: in the status-timestamp variant, the time a completed session adds to
\* the totals of getUserStats and getLeaderboard equals the duration that
\* stopTracking reported for it.
C31_StatsCountWhatStopReported ==
    \A s \in 1..Len(oldSessions) :
        oldSessions[s].status = "COMPLETED"
        => \A reported \in OldStopReported(s) :
             OldSessionTime(oldSessions[s]) = reported

\* the duration the status-timestamp engine gives a session at time t: the
\* live or frozen time of an open session, the time stopTracking reported
\* for a completed one
OldEngineDurations(sid, t) ==
    IF oldSessions[sid].status = "COMPLETED"
    THEN OldStopReported(sid)
    ELSE {legacyCalculateAdjustedTime(oldSessions[sid], t)}

\* C37: after performMigration, calculateSessionDuration over the events
\* created for a session equals the duration the old engine gave that session
\* (pausedTime for a paused one, now - startTime + pausedTime for an active
\* one, the time stopTracking reported for a completed one).
C37_MigrationPreservesDuration ==
    oldCall.pc = "migrated"
    => \A s \in 1..Len(sessions) :
         \A old \in OldEngineDurations(s, now) :
            calculateSessionDuration(EventsOf(s), now) = old

\* C38: for every sequence of start, pause and resume calls on one session,
\* the live duration of the status-timestamp engine (calculateAdjustedTime over
\* startTime and pausedTime) equals calculateSessionDuration over the events
\* the event-sourced engine records for the same calls at the same clock
\* readings, at every reading of the clock.
C38_EnginesAgreeOnLiveDuration ==
    \A s \in 1..Len(oldSessions) :
        oldSessions[s].status \in {"ACTIVE", "PAUSED"}
        => legacyCalculateAdjustedTime(oldSessions[s], now)
             = calculateSessionDuration(OldEventsOf(s), now)

\* a session that was paused after some time and resumed later: its events
\* are START, PAUSE, RESUME, and the time between the last two is not counted
C38_Witness ==
    \E s \in 1..Len(oldSessions) :
        /\ oldSessions[s].status = "ACTIVE"
        /\ oldSessions[s].pausedTime > 0
        /\ Len(OldEventsOf(s)) = 3
        /\ OldEventsOf(s)[2].timestamp < OldEventsOf(s)[3].timestamp
        /\ legacyCalculateAdjustedTime(oldSessions[s], now)
             < now - OldEventsOf(s)[1].timestamp

(* --------------------- properties: the gateway variant ---------------- *)
\* the calls that changed a session, in their order: START, PAUSE, RESUME and
\* STOP at the clock readings of the calls
GwEventsOf(sid) == SelectSeq(gwLog, LAMBDA e : e.sessionId = sid)

\* C32: in the gateway variant, the duration stopTracking reports and adds to
\* user_stats is the session's time from start to stop without the time it
\* spent paused, the pause that is open at the stop included.
C32_StopExcludesAllPausedTime ==
    \A i \in DOMAIN gwLog :
        gwLog[i].eventType = "STOP"
        => gwLog[i].durationMs
             = ActiveIntervals(GwEventsOf(gwLog[i].sessionId), 1, gwLog[i].timestamp)

\* the STOPPED sessions of a pair
GwStoppedOf(userId, guildId) ==
    {s \in 1..Len(gwSessions) : /\ gwSessions[s].userId = userId
                                /\ gwSessions[s].guildId = guildId
                                /\ gwSessions[s].status = "STOPPED"}

\* the durations the stop handlers of a pair reported, added up
RECURSIVE GwSumReported(_, _, _)
GwSumReported(userId, guildId, i) ==
    IF i > Len(gwLog) THEN 0
    ELSE (IF /\ gwLog[i].eventType = "STOP"
             /\ gwSessions[gwLog[i].sessionId].userId = userId
             /\ gwSessions[gwLog[i].sessionId].guildId = guildId
          THEN gwLog[i].durationMs ELSE 0)
         + GwSumReported(userId, guildId, i + 1)

\* C33: in the gateway variant with stop handlers (and the other handlers) of
\* one process interleaving, user_stats counts each stopped session of a pair
\* once: sessionsCount is the number of its STOPPED sessions, totalTimeMs the
\* sum of the durations their stops reported, and no session is stopped twice.
C33_EachSessionCountedOnce ==
    /\ \A u \in Users, g \in Guilds :
         /\ user_stats[<<u, g>>].sessionsCount = Cardinality(GwStoppedOf(u, g))
         /\ user_stats[<<u, g>>].totalTimeMs = GwSumReported(u, g, 1)
    /\ \A s \in 1..Len(gwSessions) :
         Cardinality({i \in DOMAIN gwLog : /\ gwLog[i].sessionId = s
                                           /\ gwLog[i].eventType = "STOP"}) <= 1

\* two stop handlers of one pair under way together: one stopped the session
\* and counted a duration above 0, the other found no open session
C33_Witness ==
    \E p, q \in Procs :
        /\ p # q
        /\ gwProcs[p].pc = "done" /\ gwProcs[p].op = "stop"
        /\ gwProcs[p].outcome = "ok" /\ gwProcs[p].adjustedDuration > 0
        /\ gwProcs[q].pc = "done" /\ gwProcs[q].op = "stop"
        /\ gwProcs[q].outcome = "noActiveSession"
        /\ gwProcs[q].userId = gwProcs[p].userId
        /\ gwProcs[q].guildId = gwProcs[p].guildId
        /\ user_stats[<<gwProcs[p].userId, gwProcs[p].guildId>>].sessionsCount = 1

(* ------------------ properties: a session over its life --------------- *)
\* the durations the stored events of a session give at time t, one for each
\* order in which the store can return them
DurationsAt(evs, t) ==
    {calculateSessionDuration(o, t) : o \in OrderedByTimestamp(evs)}

\* C34: with the calls running one at a time, a read of a session's duration
\* (the calculator over the events stored at that time, at the clock reading
\* of the read) never gives less than an earlier read gave, and every read at
\* time t gives a value between 0 and t minus the START timestamp.  The
\* earlier read saw the first k events, at a time between the k-th event and
\* the next one.
C34_DurationGrowsWithinBounds ==
    \A s \in 1..Len(sessions) :
        LET evs == EventsOf(s) IN
        \A t \in {r \in RefTimes : r >= now} :
           \A later \in DurationsAt(evs, t) :
              /\ 0 <= later
              /\ later <= t - evs[1].timestamp
              /\ \A k \in 1..Len(evs) :
                   \A t1 \in evs[k].timestamp..
                             (IF k < Len(evs) THEN evs[k + 1].timestamp ELSE t) :
                      \A earlier \in DurationsAt(SubSeq(evs, 1, k), t1) :
                         earlier <= later
\* C35: with the calls running one at a time, a stop call for a pair whose
\* open session is ACTIVE or PAUSED goes through to the store and ends ok with
\* the session COMPLETED and the pair left without an open session; a start
\* call that finds the pair without an open session creates a further session
\* whose events are one START; and no step changes the row or the events of a
\* COMPLETED session, and no write to the event table changes the durations
\* computed for it.
C35_StopClosesStartOpensAfresh ==
    [][\A p \in Procs :
         LET open == OpenOf(procs[p].userId, procs[p].guildId) IN
         /\ (ReadsSession(p, "stop") /\ open # {})
            => /\ procs'[p].pc = "dbRead"
               /\ procs'[p].sid \in open
         /\ (/\ procs[p].layer = "manager"
             /\ procs[p].op = "stop"
             /\ procs[p].pc = "dbRead"
             /\ procs'[p] # procs[p]
             /\ open # {})
            => /\ procs'[p].pc = "dbWrite"
               /\ procs'[p].dbSid \in open
         /\ WritesSession(p, "stop")
            => /\ sessions[procs[p].dbSid].status \in {"ACTIVE", "PAUSED"}
               /\ procs'[p].outcome = "ok"
               /\ sessions'[procs[p].dbSid].status = "COMPLETED"
               /\ \A s \in 1..Len(sessions') :
                    (/\ sessions'[s].userId = procs[p].userId
                     /\ sessions'[s].guildId = procs[p].guildId)
                    => sessions'[s].status = "COMPLETED"
         /\ (ReadsSession(p, "start") /\ open = {})
            => procs'[p].pc = "create"
         /\ (/\ procs[p].layer = "manager"
             /\ procs[p].pc = "create"
             /\ procs'[p] # procs[p])
            => /\ Len(sessions') = Len(sessions) + 1
               /\ procs'[p].sid = Len(sessions')
               /\ sessions'[Len(sessions')].status = "ACTIVE"
               /\ SelectSeq(session_events',
                            LAMBDA e : e.sessionId = Len(sessions'))
                    = <<[sessionId |-> Len(sessions'), eventType |-> "START",
                         timestamp |-> procs[p].t]>>
         /\ \A s \in 1..Len(sessions) :
              sessions[s].status = "COMPLETED"
              => /\ s <= Len(sessions')
                 /\ SessionUntouched(s)
                 /\ session_events' # session_events
                    => \A ref \in RefTimes :
                         DurationsAt(SelectSeq(session_events',
                                               LAMBDA e : e.sessionId = s), ref)
                           = DurationsAt(EventsOf(s), ref)]_vars

\* a session stopped while PAUSED, and the pair's next start has created a
\* second session that holds its own START only
C35_Witness ==
    \E s1, s2 \in 1..Len(sessions) :
        /\ s1 < s2
        /\ sessions[s1].userId = sessions[s2].userId
        /\ sessions[s1].guildId = sessions[s2].guildId
        /\ sessions[s1].status = "COMPLETED"
        /\ Len(EventsOf(s1)) = 3
        /\ EventsOf(s1)[2].eventType = "PAUSE"
        /\ EventsOf(s1)[3].eventType = "STOP"
        /\ sessions[s2].status = "ACTIVE"
        /\ Len(EventsOf(s2)) = 1
        /\ EventsOf(s2)[1].timestamp > EventsOf(s1)[3].timestamp

(* ------------------ properties: one pair and the others --------------- *)
\* C36: a step of a start, pause, resume or stop handler for (userId, guildId)
\* leaves the row and the events of every session of another pair as they
\* were, the same user's sessions in other guilds and other users' sessions
\* in the same guild included; a session it creates belongs to its own pair;
\* and a step of no handler changes no table.
C36_OtherPairsUntouched ==
    [][/\ \A p \in Procs :
            procs'[p] # procs[p]
            => /\ \A s \in 1..Len(sessions) :
                    (\/ sessions[s].userId # procs[p].userId
                     \/ sessions[s].guildId # procs[p].guildId)
                    => /\ s <= Len(sessions')
                       /\ SessionUntouched(s)
               /\ \A s \in (Len(sessions) + 1)..Len(sessions') :
                    /\ sessions'[s].userId = procs[p].userId
                    /\ sessions'[s].guildId = procs[p].guildId
       /\ procs' = procs
            => /\ sessions' = sessions
               /\ session_events' = session_events]_vars

\* user u1 has stopped a paused session in one guild while the session of the
\* same user in the other guild still holds its START only
C36_Witness ==
    \E s1, s2 \in 1..Len(sessions) :
        /\ sessions[s1].userId = sessions[s2].userId
        /\ sessions[s1].guildId # sessions[s2].guildId
        /\ s1 < s2
        /\ sessions[s1].status = "ACTIVE"
        /\ Len(EventsOf(s1)) = 1
        /\ sessions[s2].status = "COMPLETED"
        /\ Len(EventsOf(s2)) = 3

(* ------------------ properties: the tracking channel ------------------ *)
\* C39: when the guild's settings name a tracking channel and a start or stop
\* call comes from another channel, the call ends with the wrong-channel
\* rejection and none of its steps changes a session or an event; when the
\* settings name no tracking channel, the call goes on to its session lookup
\* whatever its channel.
C39_WrongChannelRejectedNoChannelOpen ==
    [][\A p \in Procs :
         LET configured == guildSettings[procs[p].guildId] IN
         /\ (/\ procs[p].pc = "validate"
             /\ procs[p].op \in {"start", "stop"}
             /\ procs'[p] # procs[p])
            => /\ (configured # "" /\ procs[p].channelId # configured)
                  => /\ procs'[p].pc = "done"
                     /\ procs'[p].outcome = "wrongChannel"
                     /\ sessions' = sessions
                     /\ session_events' = session_events
               /\ configured = ""
                  => /\ procs'[p].pc = "mgrRead"
                     /\ procs'[p].outcome = ""
         /\ (/\ procs[p].pc = "done"
             /\ procs[p].outcome = "wrongChannel"
             /\ procs'[p] # procs[p])
            => /\ procs'[p] = IdleProc
               /\ sessions' = sessions
               /\ session_events' = session_events
         /\ (procs[p].pc = "idle" /\ procs'[p].pc = "validate")
            => /\ sessions' = sessions
               /\ session_events' = session_events]_vars

\* a stop call from the wrong channel rejected while the pair's session, which
\* it would have closed, is still open
C39_Witness ==
    \E p \in Procs :
        /\ procs[p].pc = "done"
        /\ procs[p].op = "stop"
        /\ procs[p].outcome = "wrongChannel"
        /\ guildSettings[procs[p].guildId] # ""
        /\ OpenOf(procs[p].userId, procs[p].guildId) # {}

====
